---- MODULE Spec2Model ----
(***************************************************************************)
(* The tone scheduler of musical.js (class Instrument): the pipeline       *)
(*   tone() -> _queue -> _startSet -> _finishSet -> _cleanupSet            *)
(* driven by the timer callback _doPoll, with the notification handlers    *)
(* and one-shot callbacks run as re-entrant user code.                     *)
(*                                                                         *)
(* Time is counted in ticks of 1/4000 second, the coarsest unit in which   *)
(* every time constant of the source is a whole number.  Frequencies are   *)
(* 1..NumFreqs, standing for pitches with whole-number frequencies (A3 =   *)
(* 220 Hz, A4 = 440 Hz, ...), whose keys a JavaScript for-in loop visits   *)
(* in ascending order.  Tone records and callback registrations live in    *)
(* the heaps rec and cbs and are referred to by their index.               *)
(***************************************************************************)
EXTENDS Integers, Sequences, FiniteSets, TLC

\* ---------------------------------------------------------------- bounds
NumInsts == 2        \* Instrument objects
MaxRecs == 2         \* tone records ever created
MaxCbs == 1          \* callbacks ever passed to schedule() or play()
NumFreqs == 2        \* distinct pitches
MaxClockSecs == 3    \* the audio clock runs from 0 to this many seconds
MaxCallSecs == 0     \* scripts started by the page request tones up to this time
MaxDelaySecs == 2    \* delays passed to tone() and schedule(), in seconds
MaxDurSecs == 2      \* durations passed to tone(), in seconds
MaxHandlers == 2    \* handler functions that a page has
\* The stems, bar lines and stray tokens that a tune is written with.
MaxStems == 3
\* The tokens that a line of notes of a file is written with.
MaxTokens == 3

\* ------------------------------------------------------ program constants
TicksPerSec == 4000
timeOffset == 250        \* Instrument.timeOffset = 0.0625
dequeueTime == 2000      \* Instrument.dequeueTime = 0.5
bufferSecs == 8000       \* Instrument.bufferSecs = 2
toneLength == 4000       \* Instrument.toneLength = 1
cleanupDelay == 400      \* Instrument.cleanupDelay = 0.1
defaultAttack == 8        \* defaultTimbre.attack = 0.002
defaultDecay == 1600     \* defaultTimbre.decay = 0.4
defaultRelease == 400    \* defaultTimbre.release = 0.1
pollEpsilon == 2         \* 1 / 2000 in _doPoll
minStartTime == 1000     \* Math.max(0.25, ...) in audioCurrentStartTime
cleanupGrace == 4000     \* cleanuptime + 1 in _startPollTimer
minPollDelay == 4        \* Math.max(0.001, ...) in _startPollTimer
ticksPerMs == 4          \* setTimeout counts whole milliseconds
defaultTempo == 120      \* opts.tempo = 120 in play
slurGap == 125           \* secs -= 1/32 in play
slurMin == 500           \* secs >= 1/8 in play
Infinity == 100000000    \* larger than every time the model reaches
Null == -1               \* null: no cached time, no timer

Insts == 1..NumInsts
Freqs == 1..NumFreqs
Events == {"noteon", "noteoff"}
Handlers == 1..MaxHandlers
Delays == {k * TicksPerSec : k \in 0..MaxDelaySecs}
Durations == {k * TicksPerSec : k \in 0..MaxDurSecs}
Velocities == {1}
\* The narrower inputs of the specification with several instruments.
DuoDurations == {MaxDurSecs * TicksPerSec}
DuoDelays == {0, TicksPerSec}
Volumes == {0, 1}
\* The timbre fields that the scheduler reads.
defaultTimbre ==
  [attack |-> defaultAttack, decay |-> defaultDecay, release |-> defaultRelease]
Timbres == {defaultTimbre, [attack |-> 32, decay |-> 800, release |-> 800]}

VARIABLES
  audio,         \* isAudioPresent(): the page has an AudioContext
  clock,         \* AudioContext.currentTime
  currentStart,  \* getAudioTop.audioTop.currentStart
  inst,          \* the fields of each Instrument
  rec,           \* heap of tone records
  cbs,           \* heap of one-shot callback registrations
  stack,         \* the JavaScript call stack: deliveries in progress
  hist,          \* history: what has been issued and delivered so far
  last           \* history: the step just taken

vars == <<audio, clock, currentStart, inst, rec, cbs, stack, hist, last>>

\* --------------------------------------------------------------- helpers
Min2(a, b) == IF a < b THEN a ELSE b
Max2(a, b) == IF a > b THEN a ELSE b
Range(s) == {s[k] : k \in 1..Len(s)}
RemoveAt(s, j) == [k \in 1..(Len(s) - 1) |-> IF k < j THEN s[k] ELSE s[k + 1]]
Bump(s, k) == [s EXCEPT ![k] = Min2(2, @ + 1)]

SetMin(S, dflt) == IF S = {} THEN dflt ELSE CHOOSE x \in S : \A y \in S : x <= y

\* Math.round(delay * 1000) milliseconds, in ticks.
RoundMs(d) == ((2 * d + ticksPerMs) \div (2 * ticksPerMs)) * ticksPerMs

\* ------------------------------------------------------------ the world
\* The methods are operators from world to world, so that one method can
\* call another; an action applies one and stores the result.
NoFinish == [f \in Freqs |-> 0]
NoHandlers == [e \in Events |-> <<>>]

NewInst == [made |-> FALSE, atop |-> FALSE, out |-> FALSE, volume |-> 0,
            timbre |-> defaultTimbre,
            queue |-> <<>>, minQueueTime |-> Infinity, unsortedQueue |-> FALSE,
            startSet |-> <<>>, finishSet |-> NoFinish, cleanupSet |-> <<>>,
            callbackSet |-> <<>>, handlers |-> NoHandlers,
            now |-> Null, pollTimer |-> Null, timeouts |-> 0]

NoRet == [valid |-> FALSE, inst |-> 0, preRecs |-> 0, preCbs |-> 0,
          fin |-> {}, fcb |-> {}]

\* What a finished _trigger reports: the event and record, the handlers
\* registered when it began (cb), the handlers it called (got), and, when
\* _doPoll called it, the handlers registered when that poll began to
\* deliver (snap).
NoTrig == [valid |-> FALSE, event |-> "", rec |-> 0, cb |-> <<>>, got |-> <<>>,
           poll |-> FALSE, snap |-> <<>>]

NoLast == [op |-> "init", inst |-> 0, arg |-> 0, err |-> FALSE,
           log |-> <<>>, ret |-> NoRet, trig |-> NoTrig]

NoHist == [onIss |-> <<>>, offIss |-> <<>>, onCnt |-> <<>>, offCnt |-> <<>>,
           cbCnt |-> <<>>, discarded |-> {}, flushedRecs |-> {},
           flushedCbs |-> {}, deadRecs |-> {}, deadCbs |-> {},
           lateRecs |-> {}, lateCbs |-> {}]

World == [audio |-> audio, clock |-> clock, currentStart |-> currentStart,
          inst |-> inst, rec |-> rec, cbs |-> cbs, stack |-> stack,
          hist |-> hist, err |-> FALSE, log |-> <<>>, ret |-> NoRet,
          trig |-> NoTrig, callbacks |-> <<>>]

\* err, log, ret and trig report on the step being taken; callbacks is the
\* local array of that name in _doPoll.

\* An uncaught error unwinds every frame of the call stack.
Throw(w) == [w EXCEPT !.err = TRUE, !.stack = <<>>]

\* ------------------------------------------------------- the call stack
\* A frame is a loop that is calling user code: the delivery loop at the end
\* of _doPoll, the two loops at the end of silence(), the loop of _trigger,
\* or play() calling its continuation.  todo holds the calls still to make,
\* running says that user code called by the frame has not returned yet.
\* preRecs, preCbs, fin and fcb remember, for a silence() frame, the heap
\* sizes when the call began and what the call flushed.  snap remembers the
\* handlers registered when a loop of _doPoll or silence() began; a frame of
\* _trigger remembers its event and record and what NoTrig describes.
Item(t, rank, kind, id) == [t |-> t, rank |-> rank, kind |-> kind, id |-> id]

Frame(kind, i, todo, running) ==
  [kind |-> kind, inst |-> i, todo |-> todo, running |-> running,
   preRecs |-> 0, preCbs |-> 0, fin |-> {}, fcb |-> {},
   snap |-> <<>>, event |-> "", rec |-> 0, cb |-> <<>>, got |-> <<>>,
   poll |-> FALSE]

Top(w) == w.stack[Len(w.stack)]

\* A loop with nothing left to call returns to its caller.  When the frame
\* of a silence() call returns, the history records what the call flushed
\* and, as silenced, every tone and callback of that instrument that was
\* requested before the call began.
RECURSIVE Unwind(_)
Unwind(w) ==
  IF w.stack = <<>> THEN w
  ELSE LET F == Top(w) IN
    IF F.running \/ F.todo # <<>> THEN w
    ELSE LET popped == [w EXCEPT !.stack = SubSeq(@, 1, Len(@) - 1)] IN
      IF F.kind = "silence"
      THEN [popped EXCEPT
              !.ret = [valid |-> TRUE, inst |-> F.inst, preRecs |-> F.preRecs,
                       preCbs |-> F.preCbs, fin |-> F.fin, fcb |-> F.fcb],
              !.hist.flushedRecs = @ \cup F.fin,
              !.hist.flushedCbs = @ \cup F.fcb,
              !.hist.deadRecs = @ \cup {r \in 1..F.preRecs : w.rec[r].inst = F.inst},
              !.hist.deadCbs = @ \cup {c \in 1..F.preCbs : w.cbs[c].inst = F.inst}]
      ELSE IF F.kind = "trigger"
      THEN Unwind([popped EXCEPT
                     !.trig = [valid |-> TRUE, event |-> F.event, rec |-> F.rec,
                               cb |-> F.cb, got |-> F.got, poll |-> F.poll,
                               snap |-> F.snap]])
      ELSE Unwind(popped)

Push(w, F) == Unwind([w EXCEPT !.stack = Append(@, F)])

\* ------------------------------------------------------------- utils.js
\* audioCurrentStartTime: the cached start time, made on first use and
\* cleared by a zero-delay timer (action ClearCurrentStart).  Without an
\* audio backend getAudioTop() is null and reading atop.currentStart throws.
audioCurrentStartTime(w) ==
  IF ~w.audio THEN Throw(w)
  ELSE IF w.currentStart # Null THEN w
  ELSE [w EXCEPT !.currentStart = Max2(minStartTime, w.clock)]

\* ---------------------------------------------------------- Instrument
EndTime(R) == R.time + R.duration

\* A _startPollTimer that does not look at _minQueueTime.
earliestNoQueue(w, i) ==
  LET I == w.inst[i]
      starts == {w.rec[r].time : r \in Range(I.startSet)}
      ends == {EndTime(w.rec[I.finishSet[f]]) : f \in {g \in Freqs : I.finishSet[g] # 0}}
      calls == {w.cbs[c].time : c \in Range(I.callbackSet)}
      clean == IF I.cleanupSet = <<>> THEN {}
               ELSE {w.rec[I.cleanupSet[1]].cleanuptime + cleanupGrace}
  IN SetMin(starts \cup ends \cup calls \cup clean, Infinity)

\* The soonest time at which _doPoll has something to do.
earliest(w, i) ==
  LET I == w.inst[i]
      starts == {w.rec[r].time : r \in Range(I.startSet)}
      ends == {EndTime(w.rec[I.finishSet[f]]) : f \in {g \in Freqs : I.finishSet[g] # 0}}
      calls == {w.cbs[c].time : c \in Range(I.callbackSet)}
      clean == IF I.cleanupSet = <<>> THEN {}
               ELSE {w.rec[I.cleanupSet[1]].cleanuptime + cleanupGrace}
      deq == IF I.minQueueTime = Infinity THEN {}
             ELSE {I.minQueueTime - dequeueTime}
  IN SetMin(starts \cup ends \cup calls \cup clean \cup deq, Infinity)

\* "if (this._pollTimer) { clearTimeout(this._pollTimer); this._pollTimer =
\* null; }": timeouts counts the timers of the instrument that have been set
\* and have neither fired nor been cleared.
clearTimeout(w, i) ==
  IF w.inst[i].pollTimer # Null
  THEN [w EXCEPT !.inst[i].pollTimer = Null, !.inst[i].timeouts = @ - 1]
  ELSE w

\* "this._pollTimer = setTimeout(poll, ...)": a timer due at the time given.
setTimeout(w, i, due) ==
  [w EXCEPT !.inst[i].pollTimer = due, !.inst[i].timeouts = @ + 1]

\* A _startPollTimer that does not clear the old timer.
startPollTimerNoClear(w, i, setnow) ==
  LET I == w.inst[i] IN
  IF I.pollTimer # Null /\ I.now # Null THEN w
  ELSE IF setnow THEN
    LET w1 == audioCurrentStartTime(w) IN
    IF w1.err THEN w1
    ELSE setTimeout([w1 EXCEPT !.inst[i].now = w1.currentStart], i, w.clock)
  ELSE
    LET e == earliest(w, i)
        delay == Max2(minPollDelay, e - w.clock)
    IN IF e = Infinity THEN w
       ELSE setTimeout(w, i, w.clock + RoundMs(delay))

\* _startPollTimer(setnow).  pollTimer holds the time at which the armed
\* timer is due, Null when no timer is armed.
startPollTimer(w, i, setnow) ==
  LET I == w.inst[i] IN
  IF I.pollTimer # Null /\ I.now # Null THEN w
  ELSE IF setnow THEN
    LET w1 == audioCurrentStartTime(clearTimeout(w, i)) IN
    IF w1.err THEN w1
    ELSE setTimeout([w1 EXCEPT !.inst[i].now = w1.currentStart], i, w.clock)
  ELSE
    LET e == earliest(w, i)
        delay == Max2(minPollDelay, e - w.clock)
    IN IF e = Infinity THEN clearTimeout(w, i)
       ELSE setTimeout(clearTimeout(w, i), i, w.clock + RoundMs(delay))

\* A now() that reads the start time anew at every call.
nowUncached(w, i) ==
  LET w1 == audioCurrentStartTime(w) IN
  IF w1.err THEN w1
  ELSE [w1 EXCEPT !.inst[i].now = w1.currentStart,
                  !.inst[i].pollTimer = w.clock]

\* Instrument.prototype.now
now(w, i) ==
  IF w.inst[i].now # Null THEN w ELSE startPollTimer(w, i, TRUE)

\* A _makeSound that leaves the duration of an inaudible record as it is.
makeSoundKeepDuration(w, i, r) ==
  LET R == w.rec[r]
      stoptime == R.time + timeOffset + R.duration + R.release
      R2 == IF R.duration > 0 /\ R.velocity > 0
            THEN [R EXCEPT !.gainNode = TRUE, !.cleanuptime = stoptime]
            ELSE R
  IN [w EXCEPT !.rec[r] = R2, !.inst[i].startSet = Append(@, r)]

\* _makeSound: an audible record gets its backend nodes and its cleanup
\* time; an inaudible one is given duration zero.  Either joins _startSet.
makeSound(w, i, r) ==
  LET R == w.rec[r]
      stoptime == R.time + timeOffset + R.duration + R.release
      R2 == IF R.duration > 0 /\ R.velocity > 0
            THEN [R EXCEPT !.gainNode = TRUE, !.cleanuptime = stoptime]
            ELSE [R EXCEPT !.duration = 0]
  IN [w EXCEPT !.rec[r] = R2, !.inst[i].startSet = Append(@, r)]

\* A _truncateSound that takes the truncation time for the new duration.
truncateSoundAbsolute(w, r, truncatetime) ==
  LET R == w.rec[r] IN
  IF truncatetime < R.time + R.duration
  THEN [w EXCEPT !.rec[r].duration = Max2(0, truncatetime)]
  ELSE w

\* A _truncateSound without its test "truncatetime < time + duration".
truncateSoundAlways(w, r, truncatetime) ==
  LET R == w.rec[r]
      stoptime == truncatetime + timeOffset + R.release
      R1 == [R EXCEPT !.duration = Max2(0, truncatetime - R.time)]
      R2 == IF R.gainNode THEN [R1 EXCEPT !.cleanuptime = stoptime + cleanupDelay]
            ELSE R1
  IN [w EXCEPT !.rec[r] = R2]

\* _truncateSound
truncateSound(w, r, truncatetime) ==
  LET R == w.rec[r]
      stoptime == truncatetime + timeOffset + R.release
      R1 == [R EXCEPT !.duration = Max2(0, truncatetime - R.time)]
      R2 == IF R.gainNode THEN [R1 EXCEPT !.cleanuptime = stoptime + cleanupDelay]
            ELSE R1
  IN IF truncatetime < R.time + R.duration THEN [w EXCEPT !.rec[r] = R2] ELSE w

\* The record that tone() creates.
NewRecord(i, time, f, velocity, duration, release) ==
  [inst |-> i, time |-> time, frequency |-> f, velocity |-> velocity,
   duration |-> duration, release |-> release,
   gainNode |-> FALSE, cleanuptime |-> Infinity]

AllocRecord(w, R) ==
  [w EXCEPT !.rec = Append(@, R),
            !.hist.onIss = Append(@, 0), !.hist.offIss = Append(@, 0),
            !.hist.onCnt = Append(@, 0), !.hist.offCnt = Append(@, 0)]

\* A tone() that also submits at once a tone that starts exactly bufferSecs
\* after now.
toneInclusive(w, i, f, duration, velocity, delay) ==
  IF ~w.inst[i].atop THEN w
  ELSE
    LET w1 == now(w, i)
        nowv == w1.inst[i].now
        time == nowv + delay
        r == Len(w1.rec) + 1
        w2 == AllocRecord(w1, NewRecord(i, time, f, velocity, duration,
                                        w1.inst[i].timbre.release))
        q == w2.inst[i].queue
    IN IF time <= nowv + bufferSecs THEN makeSound(w2, i, r)
       ELSE [w2 EXCEPT
               !.inst[i].unsortedQueue =
                  @ \/ (Len(q) > 0 /\ time < w2.rec[q[Len(q)]].time),
               !.inst[i].queue = Append(@, r),
               !.inst[i].minQueueTime = Min2(@, time)]

\* Instrument.prototype.tone, for a pitch given by name or midi number.
tone(w, i, f, duration, velocity, delay) ==
  IF ~w.inst[i].atop THEN w
  ELSE
    LET w1 == now(w, i)
        nowv == w1.inst[i].now
        time == nowv + delay
        r == Len(w1.rec) + 1
        w2 == AllocRecord(w1, NewRecord(i, time, f, velocity, duration,
                                        w1.inst[i].timbre.release))
        q == w2.inst[i].queue
    IN IF time < nowv + bufferSecs THEN makeSound(w2, i, r)
       ELSE [w2 EXCEPT
               !.inst[i].unsortedQueue =
                  @ \/ (Len(q) > 0 /\ time < w2.rec[q[Len(q)]].time),
               !.inst[i].queue = Append(@, r),
               !.inst[i].minQueueTime = Min2(@, time)]

\* tone(), "If there is a custom timbre, validate and copy it": the copy has
\* the fields of defaultTimbre, each from the timbre given where it has the
\* field.  For a field that it lacks the loop reads the variable
\* defaulTimbre, which is declared nowhere: a ReferenceError.
missingKeys(given) == {key \in DOMAIN defaultTimbre : key \notin DOMAIN given}
copyTimbre(given) == [key \in DOMAIN defaultTimbre |-> given[key]]

\* Instrument.prototype.tone with a timbre of its own, which is an object
\* other than the timbre of the instrument.
toneTimbre(w, i, f, duration, velocity, delay, given) ==
  IF ~w.inst[i].atop THEN w
  ELSE IF missingKeys(given) # {} THEN Throw(w)
  ELSE
    LET w1 == now(w, i)
        nowv == w1.inst[i].now
        time == nowv + delay
        r == Len(w1.rec) + 1
        w2 == AllocRecord(w1, NewRecord(i, time, f, velocity, duration,
                                        copyTimbre(given).release))
        q == w2.inst[i].queue
    IN IF time < nowv + bufferSecs THEN makeSound(w2, i, r)
       ELSE [w2 EXCEPT
               !.inst[i].unsortedQueue =
                  @ \/ (Len(q) > 0 /\ time < w2.rec[q[Len(q)]].time),
               !.inst[i].queue = Append(@, r),
               !.inst[i].minQueueTime = Min2(@, time)]

\* A function value passed as a callback; time is set once it is scheduled.
AllocCallback(w, i) ==
  [w EXCEPT !.cbs = Append(@, [inst |-> i, time |-> Null]),
            !.hist.cbCnt = Append(@, 0)]

\* Instrument.prototype.schedule: this.now() is evaluated before the push.
schedule(w, i, delay, c) ==
  LET w1 == now(w, i) IN
  IF w1.err THEN w1
  ELSE [w1 EXCEPT !.cbs[c].time = w1.inst[i].now + delay,
                  !.inst[i].callbackSet = Append(@, c)]

\* The records of _finishSet in the order of a for-in loop over its keys.
FinishSeq(fs) ==
  SelectSeq([f \in Freqs |-> fs[f]], LAMBDA r : r # 0)

\* A silence() that forgets "this._finishSet = {}".
flushSetsKeepFinish(w, i) ==
  [w EXCEPT !.inst[i].queue = <<>>, !.inst[i].minQueueTime = Infinity,
            !.inst[i].startSet = <<>>, !.inst[i].callbackSet = <<>>]

\* A silence() that forgets "this._queue.length = 0".
flushSetsKeepQueue(w, i) ==
  [w EXCEPT !.inst[i].startSet = <<>>, !.inst[i].finishSet = NoFinish,
            !.inst[i].callbackSet = <<>>]

\* A silence() that forgets "this._startSet.length = 0".
flushSetsKeepStart(w, i) ==
  [w EXCEPT !.inst[i].queue = <<>>, !.inst[i].minQueueTime = Infinity,
            !.inst[i].finishSet = NoFinish, !.inst[i].callbackSet = <<>>]

\* A silence() whose queue and sets are shared by all instruments, as they
\* would be if they were properties of the prototype.
flushSetsAll(w, i) ==
  [w EXCEPT !.inst = [j \in Insts |->
     [@[j] EXCEPT !.queue = <<>>, !.minQueueTime = Infinity, !.startSet = <<>>,
                  !.finishSet = NoFinish, !.callbackSet = <<>>]]]

\* silence(), "Clear future notes" to "Flush one-time callbacks": the queue
\* and the sets of this instrument are emptied.
flushSets(w, i) ==
  [w EXCEPT !.inst[i].queue = <<>>, !.inst[i].minQueueTime = Infinity,
            !.inst[i].startSet = <<>>, !.inst[i].finishSet = NoFinish,
            !.inst[i].callbackSet = <<>>]

\* Instrument.prototype.silence.  Without an audio backend getAudioTop() is
\* null and this._atop.ac throws, after the queues have been emptied.
silence(w, i) ==
  LET I == w.inst[i]
      finished == FinishSeq(I.finishSet)
      callbacks == I.callbackSet
      w1 == [flushSets(w, i) EXCEPT
               !.hist.discarded = @ \cup Range(I.queue) \cup Range(I.startSet)]
      I2 == [w1.inst[i] EXCEPT !.atop = TRUE, !.out = TRUE,
                               !.volume = IF I.out THEN I.volume ELSE 1]
      todo == [k \in 1..Len(finished) |-> Item(0, 0, "noteoff", finished[k])]
              \o [k \in 1..Len(callbacks) |-> Item(0, 1, "cb", callbacks[k])]
      F == [Frame("silence", i, todo, FALSE) EXCEPT
              !.snap = I.handlers,
              !.preRecs = Len(w.rec), !.preCbs = Len(w.cbs),
              !.fin = Range(finished), !.fcb = Range(callbacks)]
  IN IF ~w.audio THEN Throw([w1 EXCEPT !.inst[i].atop = FALSE])
     ELSE Push([w1 EXCEPT
                  !.inst[i] = I2,
                  !.hist.offIss = [r \in DOMAIN @ |->
                     IF r \in Range(finished) THEN Min2(2, @[r] + 1) ELSE @[r]]],
               F)

\* The comparison of the _queue sort: time, then duration, then frequency.
QueueBefore(A, B) ==
  \/ A.time < B.time
  \/ A.time = B.time /\ A.duration < B.duration
  \/ A.time = B.time /\ A.duration = B.duration /\ A.frequency < B.frequency

\* A comparison that looks at the time only.
CallbackBeforeTimeOnly(a, b) == a.t < b.t

\* The comparison of the callbacks sort: time, then rank.
CallbackBefore(a, b) == a.t < b.t \/ (a.t = b.t /\ a.rank < b.rank)

\* Array.prototype.sort on the short arrays of the scheduler: a stable
\* insertion sort, an element going before the first one it sorts strictly
\* before.
RECURSIVE InsertRecord(_, _, _)
InsertRecord(w, x, s) ==
  IF s = <<>> THEN <<x>>
  ELSE IF QueueBefore(w.rec[x], w.rec[Head(s)]) THEN <<x>> \o s
  ELSE <<Head(s)>> \o InsertRecord(w, x, Tail(s))

RECURSIVE SortQueue(_, _)
SortQueue(w, s) ==
  IF s = <<>> THEN <<>>
  ELSE InsertRecord(w, s[Len(s)], SortQueue(w, SubSeq(s, 1, Len(s) - 1)))

RECURSIVE InsertCallback(_, _)
InsertCallback(x, s) ==
  IF s = <<>> THEN <<x>>
  ELSE IF CallbackBefore(x, Head(s)) THEN <<x>> \o s
  ELSE <<Head(s)>> \o InsertCallback(x, Tail(s))

RECURSIVE SortCallbacks(_)
SortCallbacks(s) ==
  IF s = <<>> THEN <<>>
  ELSE InsertCallback(s[Len(s)], SortCallbacks(SubSeq(s, 1, Len(s) - 1)))

RECURSIVE makeSounds(_, _, _)
makeSounds(w, i, work) ==
  IF work = <<>> THEN w
  ELSE makeSounds(makeSound(w, i, Head(work)), i, Tail(work))

\* A poll that takes the prefix of the queue without sorting it first.
pollQueueNoSort(w, i, instant) ==
  LET I == w.inst[i] IN
  IF I.minQueueTime # Infinity /\ I.minQueueTime - instant <= bufferSecs
  THEN
    LET q == I.queue
        far == {k \in 1..Len(q) : w.rec[q[k]].time - instant > bufferSecs}
        j == SetMin(far, Len(q) + 1) - 1
        rest == SubSeq(q, j + 1, Len(q))
        w1 == [w EXCEPT
                 !.inst[i].unsortedQueue = FALSE,
                 !.inst[i].queue = rest,
                 !.inst[i].minQueueTime =
                    IF j = 0 THEN @
                    ELSE IF rest # <<>> THEN w.rec[rest[1]].time ELSE Infinity]
    IN makeSounds(w1, i, SubSeq(q, 1, j))
  ELSE w

\* _doPoll, "Schedule a batch of notes".
pollQueue(w, i, instant) ==
  LET I == w.inst[i] IN
  IF I.minQueueTime # Infinity /\ I.minQueueTime - instant <= bufferSecs
  THEN
    LET q == IF I.unsortedQueue
             THEN SortQueue(w, I.queue)
             ELSE I.queue
        far == {k \in 1..Len(q) : w.rec[q[k]].time - instant > bufferSecs}
        j == SetMin(far, Len(q) + 1) - 1
        rest == SubSeq(q, j + 1, Len(q))
        w1 == [w EXCEPT
                 !.inst[i].unsortedQueue = FALSE,
                 !.inst[i].queue = rest,
                 !.inst[i].minQueueTime =
                    IF j = 0 THEN @
                    ELSE IF rest # <<>> THEN w.rec[rest[1]].time ELSE Infinity]
    IN makeSounds(w1, i, SubSeq(q, 1, j))
  ELSE w

\* _doPoll, "Disconnect notes from the cleanup set".
pollCleanup(w, i, instant) ==
  LET set == w.inst[i].cleanupSet
      due(r) == w.rec[r].cleanuptime < instant
  IN [w EXCEPT
        !.inst[i].cleanupSet = SelectSeq(set, LAMBDA r : ~due(r)),
        !.rec = [r \in DOMAIN @ |->
                   IF r \in Range(set) /\ due(r)
                   THEN [@[r] EXCEPT !.gainNode = FALSE] ELSE @[r]]]

\* A finishing loop that forgets "delete this._finishSet[freq]".
finishOneKeep(w, i, f, instant) ==
  LET r == w.inst[i].finishSet[f]
      when == EndTime(w.rec[r])
  IN IF r # 0 /\ when <= instant
     THEN [w EXCEPT
             !.callbacks = Append(@, Item(when, 0, "noteoff", r)),
             !.hist.offIss = Bump(@, r),
             !.inst[i].cleanupSet =
                IF w.rec[r].cleanuptime # Infinity THEN Append(@, r) ELSE @]
     ELSE w

\* _doPoll, "Notify about any notes finishing": one turn of the for-in loop.
finishOne(w, i, f, instant) ==
  LET r == w.inst[i].finishSet[f]
      when == EndTime(w.rec[r])
  IN IF r # 0 /\ when <= instant
     THEN [w EXCEPT
             !.callbacks = Append(@, Item(when, 0, "noteoff", r)),
             !.hist.offIss = Bump(@, r),
             !.inst[i].cleanupSet =
                IF w.rec[r].cleanuptime # Infinity THEN Append(@, r) ELSE @,
             !.inst[i].finishSet[f] = 0]
     ELSE w

RECURSIVE pollFinish(_, _, _, _)
pollFinish(w, i, f, instant) ==
  IF f > NumFreqs THEN w
  ELSE pollFinish(finishOne(w, i, f, instant), i, f + 1, instant)

\* A callback loop that forgets "this._callbackSet.splice(j, 1)".
pollCallbacksKeep(w, i, instant) ==
  LET set == w.inst[i].callbackSet
      due == SelectSeq(set, LAMBDA c : w.cbs[c].time <= instant)
  IN [w EXCEPT
        !.callbacks = @ \o [k \in 1..Len(due) |->
                              Item(w.cbs[due[k]].time, 1, "cb", due[k])]]

\* _doPoll, "Call any specific one-time callbacks that were registered".
pollCallbacks(w, i, instant) ==
  LET set == w.inst[i].callbackSet
      due == SelectSeq(set, LAMBDA c : w.cbs[c].time <= instant)
  IN [w EXCEPT
        !.callbacks = @ \o [k \in 1..Len(due) |->
                              Item(w.cbs[due[k]].time, 1, "cb", due[k])],
        !.inst[i].callbackSet = SelectSeq(set, LAMBDA c : w.cbs[c].time > instant)]

\* The test of _doPoll that decides which of two records of one frequency
\* gives way: TRUE when the sounding record (conflict) is the earlier one.
conflictEarlier(C, R) ==
  C.time < R.time \/ (C.time = R.time /\ C.duration < R.duration)

\* A loop body that does not look for a sounding record of the same
\* frequency.
startOneNoConflict(w, i, r) ==
  LET R == w.rec[r] IN
  IF R.duration > 0 /\ R.velocity > 0
  THEN [w EXCEPT !.inst[i].finishSet[R.frequency] = r,
                 !.callbacks = Append(@, Item(R.time, 2, "noteon", r)),
                 !.hist.onIss = Bump(@, r)]
  ELSE w

\* _doPoll, "Notify about any notes starting": the body of the loop for a
\* record r of _startSet whose time has come, but for its removal from
\* _startSet.  Every conflict met is written to the log of the step.
startOne(w, i, r) ==
  LET R == w.rec[r]
      f == R.frequency
      c == w.inst[i].finishSet[f]
      earlier == conflictEarlier(w.rec[c], R)
      loser == c # 0 /\ ~earlier
      wA == IF c = 0 THEN w
            ELSE IF earlier
            THEN [truncateSound(w, c, R.time) EXCEPT
                    !.callbacks = Append(@, Item(R.time, 0, "noteoff", c)),
                    !.hist.offIss = Bump(@, c),
                    !.inst[i].finishSet[f] = 0]
            ELSE truncateSound(w, r, w.rec[c].time)
      Ra == wA.rec[r]
      wB == IF Ra.duration > 0 /\ Ra.velocity > 0 /\ ~loser
            THEN [wA EXCEPT
                    !.inst[i].finishSet[f] = r,
                    !.callbacks = Append(@, Item(R.time, 2, "noteon", r)),
                    !.hist.onIss = Bump(@, r)]
            ELSE wA
      event == [new |-> r, old |-> c, oldEarlier |-> earlier,
                newBefore |-> R, newAfter |-> wB.rec[r],
                oldBefore |-> w.rec[c], oldAfter |-> wB.rec[c],
                sounding |-> wB.inst[i].finishSet[f],
                pushed |-> SubSeq(wB.callbacks, Len(w.callbacks) + 1,
                                  Len(wB.callbacks))]
  IN IF c = 0 THEN wB ELSE [wB EXCEPT !.log = Append(@, event)]

RECURSIVE pollStart(_, _, _, _)
pollStart(w, i, j, instant) ==
  LET set == w.inst[i].startSet IN
  IF j > Len(set) THEN w
  ELSE IF w.rec[set[j]].time <= instant
  THEN pollStart([startOne(w, i, set[j]) EXCEPT
                    !.inst[i].startSet = RemoveAt(@, j)],
                 i, j, instant)
  ELSE pollStart(w, i, j + 1, instant)

\* Instrument.prototype._doPoll.  interrupted is window.interrupted.
doPoll(w, i, interrupted) ==
  LET w0 == [w EXCEPT !.inst[i].pollTimer = Null, !.inst[i].now = Null,
                      !.inst[i].timeouts = @ - 1]
      instant == w.clock + pollEpsilon
      w1 == pollQueue(w0, i, instant)
      w2 == pollCleanup(w1, i, instant)
      w3 == pollFinish(w2, i, 1, instant)
      w4 == pollCallbacks(w3, i, instant)
      w5 == pollStart(w4, i, 1, instant)
      w6 == startPollTimer(w5, i, FALSE)
  IN IF interrupted THEN silence(w0, i)
     ELSE Push([w6 EXCEPT !.callbacks = <<>>],
               [Frame("poll", i, SortCallbacks(w6.callbacks), FALSE) EXCEPT
                  !.snap = w6.inst[i].handlers])

\* ------------------------------------------------------- parser-abc.js
\* Numbers of beats are fractions n/d in lowest terms.  NaN stands for the
\* value that arithmetic gives when a time is undefined.
RECURSIVE GCD(_, _)
GCD(a, b) == IF b = 0 THEN a ELSE GCD(b, a % b)
Abs(a) == IF a < 0 THEN -a ELSE a
NaN == [n |-> 0, d |-> 0]
ratOf(n, d, g) == [n |-> (IF d < 0 THEN -n ELSE n) \div g, d |-> Abs(d) \div g]
Rat(n, d) == IF d = 0 THEN NaN ELSE ratOf(n, d, GCD(Abs(n), Abs(d)))
IsNaN(a) == a.d = 0
Zero == Rat(0, 1)
One == Rat(1, 1)
RatAdd(a, b) ==
  IF IsNaN(a) \/ IsNaN(b) THEN NaN ELSE Rat(a.n * b.d + b.n * a.d, a.d * b.d)
RatSub(a, b) ==
  IF IsNaN(a) \/ IsNaN(b) THEN NaN ELSE Rat(a.n * b.d - b.n * a.d, a.d * b.d)
RatMul(a, b) ==
  IF IsNaN(a) \/ IsNaN(b) THEN NaN ELSE Rat(a.n * b.n, a.d * b.d)
RatLess(a, b) == ~IsNaN(a) /\ ~IsNaN(b) /\ a.n * b.d < b.n * a.d
\* 0.5 to the power k
RECURSIVE HalfPow(_)
HalfPow(k) == IF k = 0 THEN One ELSE RatMul(Rat(1, 2), HalfPow(k - 1))
\* A falsy number: 0, NaN or undefined.
Falsy(a) == IsNaN(a) \/ a.n = 0
\* A number of beats as a whole number of ticks, bs ticks to the beat.
RatTicks(a, bs) == (a.n * bs) \div a.d

\* A line of a tune is given as the tokens that the regular expression
\* ABCtoken cuts it into.  The tokens written here are pitches, a rest,
\* durations, ties, chord brackets, bar lines, white space, broken-rhythm
\* marks, tuplet marks and decorations.
\* A pitch token is an accidental, a letter and octave marks; the pitches
\* here are in two octaves and carry at most one accidental mark.
Accidentals == {"", "=", "^", "_"}
Bases == {"C", "D", "E", "F", "c"}
Concat(accidental, base) ==
  CASE accidental = "" -> base
    [] accidental = "=" ->
         (CASE base = "C" -> "=C" [] base = "D" -> "=D" [] base = "E" -> "=E"
            [] base = "F" -> "=F" [] base = "c" -> "=c")
    [] accidental = "^" ->
         (CASE base = "C" -> "^C" [] base = "D" -> "^D" [] base = "E" -> "^E"
            [] base = "F" -> "^F" [] base = "c" -> "^c")
    [] accidental = "_" ->
         (CASE base = "C" -> "_C" [] base = "D" -> "_D" [] base = "E" -> "_E"
            [] base = "F" -> "_F" [] base = "c" -> "_c")
PitchTokens == {Concat(a, b) : a \in Accidentals, b \in Bases}
RestTokens == {"z"}
\* The match of /^(\^+|_+|=|)([A-Ga-g])(.*)$/ on a pitch token: m[1] is
\* the accidental and m[2] + m[3] the rest of the token.
pitchMatch(pitch) ==
  CHOOSE m \in Accidentals \X Bases : Concat(m[1], m[2]) = pitch
toUpperCase(base) == IF base = "c" THEN "C" ELSE base
Letters == {"A", "B", "C", "D", "E", "F", "G"}

\* A duration token, by the groups that the regular expression of
\* durationToTime finds in it: the digits m[1], the digits m[2], the number
\* of slashes of m[3], and whether the token has a slash.
DurationTokens ==
  {"1", "2", "3", "4", "/", "/2", "2/", "3/2", "3/4", "//", "///", "11/2",
   "12/8", "/3", "12", "12/", "112/4"}
NoDuration == [m1 |-> <<>>, m2 |-> <<>>, m3 |-> 0, slash |-> FALSE]
durationMatch(duration) ==
  CASE duration = "" -> NoDuration
    [] duration = "1" -> [NoDuration EXCEPT !.m1 = <<1>>]
    [] duration = "2" -> [NoDuration EXCEPT !.m1 = <<2>>]
    [] duration = "3" -> [NoDuration EXCEPT !.m1 = <<3>>]
    [] duration = "4" -> [NoDuration EXCEPT !.m1 = <<4>>]
    [] duration = "/" -> [NoDuration EXCEPT !.slash = TRUE]
    [] duration = "/2" -> [NoDuration EXCEPT !.m2 = <<2>>, !.slash = TRUE]
    [] duration = "2/" -> [NoDuration EXCEPT !.m1 = <<2>>, !.slash = TRUE]
    [] duration = "3/2" ->
         [NoDuration EXCEPT !.m1 = <<3>>, !.m2 = <<2>>, !.slash = TRUE]
    [] duration = "3/4" ->
         [NoDuration EXCEPT !.m1 = <<3>>, !.m2 = <<4>>, !.slash = TRUE]
    [] duration = "//" -> [NoDuration EXCEPT !.m3 = 2, !.slash = TRUE]
    [] duration = "///" -> [NoDuration EXCEPT !.m3 = 3, !.slash = TRUE]
    [] duration = "11/2" ->
         [NoDuration EXCEPT !.m1 = <<1, 1>>, !.m2 = <<2>>, !.slash = TRUE]
    [] duration = "12/8" ->
         [NoDuration EXCEPT !.m1 = <<1, 2>>, !.m2 = <<8>>, !.slash = TRUE]
    [] duration = "/3" -> [NoDuration EXCEPT !.m2 = <<3>>, !.slash = TRUE]
    [] duration = "12" -> [NoDuration EXCEPT !.m1 = <<1, 2>>]
    [] duration = "12/" -> [NoDuration EXCEPT !.m1 = <<1, 2>>, !.slash = TRUE]
    [] duration = "112/4" ->
         [NoDuration EXCEPT !.m1 = <<1, 1, 2>>, !.m2 = <<4>>, !.slash = TRUE]

\* parseFloat of a string of digits
RECURSIVE parseFloat(_)
parseFloat(digits) ==
  IF digits = <<>> THEN 0
  ELSE 10 * parseFloat(SubSeq(digits, 1, Len(digits) - 1)) + digits[Len(digits)]

\* durationToTime, the loop "Handle mixed fractions": v holds ilen, i and n.
RECURSIVE mixedFraction(_, _, _)
mixedFraction(m1, d, v) ==
  IF v.ilen + 1 < Len(m1) /\ v.n > d
  THEN mixedFraction(m1, d,
         [ilen |-> v.ilen + 1,
          i |-> parseFloat(SubSeq(m1, 1, v.ilen + 1)),
          n |-> parseFloat(SubSeq(m1, v.ilen + 2, Len(m1)))])
  ELSE v

\* The value i + n / d that durationToTime returns.
mixedSum(v, d) == RatAdd(Rat(v.i, 1), Rat(v.n, d))

\* A durationToTime that divides the whole numerator by the denominator.
durationFractionPlain(m, d, n) == Rat(n, d)

\* durationToTime; NaN where it returns undefined, for a token that its
\* regular expression does not match.  m is the match, d the denominator
\* and n the numerator.
durationFraction(m, d, n) ==
  mixedSum(IF m.m2 # <<>>
           THEN mixedFraction(m.m1, d, [ilen |-> 0, i |-> 0, n |-> n])
           ELSE [ilen |-> 0, i |-> 0, n |-> n], d)
durationValue(m) ==
  IF m.m3 > 0 THEN HalfPow(m.m3)
  ELSE durationFraction(m,
         IF m.m2 # <<>> THEN parseFloat(m.m2) ELSE IF m.slash THEN 2 ELSE 1,
         IF m.m1 # <<>> THEN parseFloat(m.m1) ELSE 1)
durationToTime(duration) ==
  IF duration \notin DurationTokens \cup {""} THEN NaN
  ELSE durationValue(durationMatch(duration))

\* The accidentals that hold for the letters: of a key signature, and those
\* written so far in a measure.  "none" marks a letter without an entry.
NoKey == [l \in Letters |-> "none"]

\* The object accent: the slur depth, the velocity of the last dynamics
\* mark (zero before any), and the accidentals of the measure.
NewAccent == [slurred |-> 0, dynamics |-> Zero, acc |-> NoKey]

\* stripNatural, for the match m of a pitch
resolved(m) == IF m[1] = "=" THEN m[2] ELSE Concat(m[1], m[2])

\* stripNatural
stripNatural(pitch) == resolved(pitchMatch(pitch))

\* applyAccent: the pitch that it returns and the accent that it leaves.
\* m is the match of the pitch and letter is the letter of the pitch.
accented(m, letter, key, accent) ==
  IF m[1] # ""
  THEN [pitch |-> resolved(m), accent |-> [accent EXCEPT !.acc[letter] = m[1]]]
  ELSE IF accent.acc[letter] # "none"
  THEN [pitch |-> resolved(<<accent.acc[letter], m[2]>>), accent |-> accent]
  ELSE IF key[letter] # "none"
  THEN [pitch |-> resolved(<<key[letter], m[2]>>), accent |-> accent]
  ELSE [pitch |-> resolved(m), accent |-> accent]
matched(m, key, accent) == accented(m, toUpperCase(m[2]), key, accent)
applyAccent(pitch, key, accent) == matched(pitchMatch(pitch), key, accent)

\* accidentals(n), with the letters in the order of the sharps.
sharps == <<"F", "C", "G", "D", "A", "E", "B">>

\* An accidentals(n) that takes the flats in the order of the sharps.
accidentalsForward(n) ==
  [l \in Letters |->
     IF n > 0 /\ \E j \in 0..(n - 1) : j < 7 /\ sharps[j + 1] = l THEN "^"
     ELSE IF n < 0 /\ \E j \in (n + 1)..0 : j > -7 /\ sharps[1 - j] = l
     THEN "_"
     ELSE "none"]

accidentals(n) ==
  [l \in Letters |->
     IF n > 0 /\ \E j \in 0..(n - 1) : j < 7 /\ sharps[j + 1] = l THEN "^"
     ELSE IF n < 0 /\ \E j \in (n + 1)..0 : j > -7 /\ sharps[7 + j] = l
     THEN "_"
     ELSE "none"]

\* The name of a key is a string of characters.  The table sigcodes gives
\* the number of sharps, or less the number of flats, of a key name.
sigcodes ==
  { <<<<"c", "#">>, 7>>, <<<<"f", "#">>, 6>>, <<<<"b">>, 5>>, <<<<"e">>, 4>>,
    <<<<"a">>, 3>>, <<<<"d">>, 2>>, <<<<"g">>, 1>>, <<<<"c">>, 0>>,
    <<<<"f">>, -1>>, <<<<"b", "b">>, -2>>, <<<<"e", "b">>, -3>>,
    <<<<"a", "b">>, -4>>, <<<<"d", "b">>, -5>>, <<<<"g", "b">>, -6>>,
    <<<<"c", "b">>, -7>>, <<<<"a", "#", "m">>, 7>>, <<<<"d", "#", "m">>, 6>>,
    <<<<"g", "#", "m">>, 5>>, <<<<"c", "#", "m">>, 4>>,
    <<<<"f", "#", "m">>, 3>>, <<<<"b", "m">>, 2>>, <<<<"e", "m">>, 1>>,
    <<<<"a", "m">>, 0>>, <<<<"d", "m">>, -1>>, <<<<"g", "m">>, -2>>,
    <<<<"c", "m">>, -3>>, <<<<"f", "m">>, -4>>, <<<<"b", "b", "m">>, -5>>,
    <<<<"e", "b", "m">>, -6>>, <<<<"a", "b", "m">>, -7>>,
    <<<<"g", "#", "m", "i", "x">>, 7>>, <<<<"c", "#", "m", "i", "x">>, 6>>,
    <<<<"f", "#", "m", "i", "x">>, 5>>, <<<<"b", "m", "i", "x">>, 4>>,
    <<<<"e", "m", "i", "x">>, 3>>, <<<<"a", "m", "i", "x">>, 2>>,
    <<<<"d", "m", "i", "x">>, 1>>, <<<<"g", "m", "i", "x">>, 0>>,
    <<<<"c", "m", "i", "x">>, -1>>, <<<<"f", "m", "i", "x">>, -2>>,
    <<<<"b", "b", "m", "i", "x">>, -3>>, <<<<"e", "b", "m", "i", "x">>, -4>>,
    <<<<"a", "b", "m", "i", "x">>, -5>>, <<<<"d", "b", "m", "i", "x">>, -6>>,
    <<<<"g", "b", "m", "i", "x">>, -7>>, <<<<"d", "#", "d", "o", "r">>, 7>>,
    <<<<"g", "#", "d", "o", "r">>, 6>>, <<<<"c", "#", "d", "o", "r">>, 5>>,
    <<<<"f", "#", "d", "o", "r">>, 4>>, <<<<"b", "d", "o", "r">>, 3>>,
    <<<<"e", "d", "o", "r">>, 2>>, <<<<"a", "d", "o", "r">>, 1>>,
    <<<<"d", "d", "o", "r">>, 0>>, <<<<"g", "d", "o", "r">>, -1>>,
    <<<<"c", "d", "o", "r">>, -2>>, <<<<"f", "d", "o", "r">>, -3>>,
    <<<<"b", "b", "d", "o", "r">>, -4>>, <<<<"e", "b", "d", "o", "r">>, -5>>,
    <<<<"a", "b", "d", "o", "r">>, -6>>, <<<<"d", "b", "d", "o", "r">>, -7>>,
    <<<<"e", "#", "p", "h", "r">>, 7>>, <<<<"a", "#", "p", "h", "r">>, 6>>,
    <<<<"d", "#", "p", "h", "r">>, 5>>, <<<<"g", "#", "p", "h", "r">>, 4>>,
    <<<<"c", "#", "p", "h", "r">>, 3>>, <<<<"f", "#", "p", "h", "r">>, 2>>,
    <<<<"b", "p", "h", "r">>, 1>>, <<<<"e", "p", "h", "r">>, 0>>,
    <<<<"a", "p", "h", "r">>, -1>>, <<<<"d", "p", "h", "r">>, -2>>,
    <<<<"g", "p", "h", "r">>, -3>>, <<<<"c", "p", "h", "r">>, -4>>,
    <<<<"f", "p", "h", "r">>, -5>>, <<<<"b", "b", "p", "h", "r">>, -6>>,
    <<<<"e", "b", "p", "h", "r">>, -7>>, <<<<"f", "#", "l", "y", "d">>, 7>>,
    <<<<"b", "l", "y", "d">>, 6>>, <<<<"e", "l", "y", "d">>, 5>>,
    <<<<"a", "l", "y", "d">>, 4>>, <<<<"d", "l", "y", "d">>, 3>>,
    <<<<"g", "l", "y", "d">>, 2>>, <<<<"c", "l", "y", "d">>, 1>>,
    <<<<"f", "l", "y", "d">>, 0>>, <<<<"b", "b", "l", "y", "d">>, -1>>,
    <<<<"e", "b", "l", "y", "d">>, -2>>, <<<<"a", "b", "l", "y", "d">>, -3>>,
    <<<<"d", "b", "l", "y", "d">>, -4>>, <<<<"g", "b", "l", "y", "d">>, -5>>,
    <<<<"c", "b", "l", "y", "d">>, -6>>, <<<<"f", "b", "l", "y", "d">>, -7>>,
    <<<<"b", "#", "l", "o", "c">>, 7>>, <<<<"e", "#", "l", "o", "c">>, 6>>,
    <<<<"a", "#", "l", "o", "c">>, 5>>, <<<<"d", "#", "l", "o", "c">>, 4>>,
    <<<<"g", "#", "l", "o", "c">>, 3>>, <<<<"c", "#", "l", "o", "c">>, 2>>,
    <<<<"f", "#", "l", "o", "c">>, 1>>, <<<<"b", "l", "o", "c">>, 0>>,
    <<<<"e", "l", "o", "c">>, -1>>, <<<<"a", "l", "o", "c">>, -2>>,
    <<<<"d", "l", "o", "c">>, -3>>, <<<<"g", "l", "o", "c">>, -4>>,
    <<<<"c", "l", "o", "c">>, -5>>, <<<<"f", "l", "o", "c">>, -6>>,
    <<<<"b", "b", "l", "o", "c">>, -7>> }
sigcode(kkey) ==
  IF \E e \in sigcodes : e[1] = kkey
  THEN (CHOOSE e \in sigcodes : e[1] = kkey)[2]
  ELSE 0

\* toLowerCase and toUpperCase of a character of a key name
lowerChar(ch) ==
  CASE ch = "A" -> "a" [] ch = "B" -> "b" [] ch = "C" -> "c" [] ch = "D" -> "d"
    [] ch = "E" -> "e" [] ch = "F" -> "f" [] ch = "G" -> "g" [] OTHER -> ch
upperChar(ch) ==
  CASE ch = "a" -> "A" [] ch = "b" -> "B" [] ch = "c" -> "C" [] ch = "d" -> "D"
    [] ch = "e" -> "E" [] ch = "f" -> "F" [] ch = "g" -> "G" [] OTHER -> ch

\* keyname.replace(/\s+/g, '').toLowerCase().substr(0, 5)
keyStem(keyname) ==
  LET s == SelectSeq(keyname, LAMBDA ch : ch # " ")
      l == [p \in DOMAIN s |-> lowerChar(s[p])]
  IN SubSeq(l, 1, Min2(5, Len(l)))

\* k.match(/maj|min|mix|dor|phr|lyd|loc|m/): the leftmost place where one
\* of the names matches, and the first name that matches there.
scaleNames ==
  << <<"m", "a", "j">>, <<"m", "i", "n">>, <<"m", "i", "x">>,
     <<"d", "o", "r">>, <<"p", "h", "r">>, <<"l", "y", "d">>,
     <<"l", "o", "c">>, <<"m">> >>
matchesAt(s, p, w) ==
  p + Len(w) - 1 <= Len(s) /\ SubSeq(s, p, p + Len(w) - 1) = w
scaleMatch(k) ==
  LET places == {p \in 1..Len(k) :
                   \E a \in DOMAIN scaleNames : matchesAt(k, p, scaleNames[a])}
      p == CHOOSE q \in places : \A r \in places : q <= r
      a == CHOOSE b \in DOMAIN scaleNames :
             /\ matchesAt(k, p, scaleNames[b])
             /\ \A c \in 1..(b - 1) : ~matchesAt(k, p, scaleNames[c])
  IN IF places = {} THEN [found |-> FALSE, index |-> 0, name |-> <<>>]
     ELSE [found |-> TRUE, index |-> p - 1, name |-> scaleNames[a]]

\* kkey, and the value of kkey.length: where no scale is named, kkey is the
\* array that /^[a-g][#b]?/.exec(k) returns, of length 1, or ''.
keyOf(k) ==
  LET scale == scaleMatch(k) IN
  IF scale.found
  THEN LET kkey ==
             IF scale.name = <<"m", "a", "j">> THEN SubSeq(k, 1, scale.index)
             ELSE IF scale.name = <<"m", "i", "n">>
             THEN SubSeq(k, 1, scale.index + 1)
             ELSE SubSeq(k, 1, scale.index + Len(scale.name))
       IN [kkey |-> kkey, length |-> Len(kkey)]
  ELSE IF Len(k) >= 1 /\ k[1] \in {"a", "b", "c", "d", "e", "f", "g"}
  THEN [kkey |-> IF Len(k) >= 2 /\ k[2] \in {"#", "b"}
                 THEN SubSeq(k, 1, 2) ELSE SubSeq(k, 1, 1),
        length |-> 1]
  ELSE [kkey |-> <<>>, length |-> 0]

\* The loop of keysig over the matches of /(_+|=|\^+)[a-g]/ig in the rest
\* of the key name, from place p on; the key names here have no accidental
\* mark that is doubled.
RECURSIVE keyExtras(_, _, _)
keyExtras(rest, p, result) ==
  IF p + 1 > Len(rest) THEN result
  ELSE IF /\ rest[p] \in {"_", "=", "^"}
          /\ lowerChar(rest[p + 1]) \in {"a", "b", "c", "d", "e", "f", "g"}
  THEN keyExtras(rest, p + 2,
                 [result EXCEPT ![upperChar(rest[p + 1])] =
                    IF rest[p] = "=" THEN "none" ELSE rest[p]])
  ELSE keyExtras(rest, p + 1, result)

\* keysig
keysig(keyname) ==
  IF keyname = <<>> THEN NoKey
  ELSE LET key == keyOf(keyStem(keyname))
       IN keyExtras(SubSeq(keyname, key.length + 1, Len(keyname)), 1,
                    accidentals(sigcode(key.kkey)))

\* Tuplet marks, by the numbers that the regular expression of parseBeatlet
\* finds in them (0 for a group that is absent), broken-rhythm marks by
\* their length, and dynamics marks.  None of these tokens, nor any other
\* token written here but a pitch, has a letter from A to G in it.
BeatletTokens == {"(2", "(3", "(3:2:2", "(3:2:4"}
beatletMatch(token) ==
  CASE token = "(2" -> <<2, 0, 0>>
    [] token = "(3" -> <<3, 0, 0>>
    [] token = "(3:2:2" -> <<3, 2, 2>>
    [] token = "(3:2:4" -> <<3, 2, 4>>
DottedTokens == {">", ">>", "<", "<<"}
tokenLength(token) == IF token \in {">", "<"} THEN 1 ELSE 2
DecorationTokens == {"!p!", "!mp!", "!trill!"}

\* The test /^(?![\s%!]).*[\d\/]/ that parseStem makes for a duration: the
\* token has a digit or a slash and starts with none of white space, % or !.
looksLikeDuration(tokens, index) ==
  index <= Len(tokens) /\ tokens[index] \in DurationTokens \cup BeatletTokens

\* The note object that parseStem makes for a pitch.
ParsedNote(p, time, tie) ==
  [holdover |-> FALSE, pitch |-> p, slurred |-> FALSE, tie |-> tie,
   time |-> time, velocity |-> Zero]

\* parseStem, the loop that scans the notes within a chord.  c holds the
\* variables of parseStem: index, notes, duration (of the stem, that of the
\* shortest note so far), minStemTime, pitched (lastNote is not null), and
\* the object accent.  One turn of the loop takes a pitch or a rest, ...
chordNote(c, applied) ==
  [c EXCEPT !.index = @ + 1,
            !.pitched = TRUE,
            !.notes = Append(@, ParsedNote(applied.pitch, One, FALSE)),
            !.accent = applied.accent]
chordPitch(tokens, key, c) ==
  IF tokens[c.index] \in PitchTokens
  THEN chordNote(c, applyAccent(tokens[c.index], key, c.accent))
  ELSE [c EXCEPT !.index = @ + 1, !.pitched = FALSE]

\* ... gives it the time of noteDuration, ...
chordTime(c, noteDuration, noteTime) ==
  [c EXCEPT !.notes = IF c.pitched
                      THEN [@ EXCEPT ![Len(@)].time = noteTime]
                      ELSE @,
            !.duration = IF ~Falsy(noteTime) /\ RatLess(noteTime, c.minStemTime)
                         THEN noteDuration ELSE @,
            !.minStemTime = IF ~Falsy(noteTime) /\ RatLess(noteTime, @)
                            THEN noteTime ELSE @]

\* ... which is the duration that follows it, if one does, ...
chordDuration(tokens, c) ==
  IF looksLikeDuration(tokens, c.index)
  THEN chordTime([c EXCEPT !.index = @ + 1], tokens[c.index],
                 durationToTime(tokens[c.index]))
  ELSE chordTime(c, "", One)

\* ... and a tie mark after that.
chordTie(tokens, c) ==
  IF c.index <= Len(tokens) /\ tokens[c.index] = "-"
  THEN [c EXCEPT !.index = @ + 1,
                 !.notes = IF c.pitched THEN [@ EXCEPT ![Len(@)].tie = TRUE]
                           ELSE @]
  ELSE c

\* White space is passed over, and the loop stops at the first token that
\* is neither a pitch nor a rest.
RECURSIVE chordLoop(_, _, _)
chordLoop(tokens, key, c) ==
  IF c.index > Len(tokens) THEN c
  ELSE IF tokens[c.index] = " "
  THEN chordLoop(tokens, key, [c EXCEPT !.index = @ + 1])
  ELSE IF tokens[c.index] \notin PitchTokens \cup RestTokens THEN c
  ELSE chordLoop(tokens, key,
                 chordTie(tokens, chordDuration(tokens,
                                    chordPitch(tokens, key, c))))

\* parseStem after a chord: the next token must be "]"; ok is FALSE where
\* parseStem returns null.
chordEnd(tokens, c) ==
  [ok |-> c.index <= Len(tokens) /\ tokens[c.index] = "]",
   index |-> c.index + 1, notes |-> c.notes, duration |-> c.duration,
   accent |-> c.accent]

\* parseStem, first part: a chord, a single note or a rest.  The tunes here
\* have no staccato marks.
singleNote(index, applied) ==
  [ok |-> TRUE, index |-> index + 1,
   notes |-> <<ParsedNote(applied.pitch, One, FALSE)>>, duration |-> "",
   accent |-> applied.accent]
stemHead(tokens, index, key, accent) ==
  IF index > Len(tokens)
  THEN [ok |-> FALSE, index |-> index, notes |-> <<>>, duration |-> "",
        accent |-> accent]
  ELSE IF tokens[index] = "["
  THEN chordEnd(tokens,
                chordLoop(tokens, key,
                          [index |-> index + 1, notes |-> <<>>,
                           duration |-> "", minStemTime |-> Rat(Infinity, 1),
                           pitched |-> FALSE, accent |-> accent]))
  ELSE IF tokens[index] \in PitchTokens
  THEN singleNote(index, applyAccent(tokens[index], key, accent))
  ELSE [ok |-> tokens[index] \in RestTokens,
        index |-> IF tokens[index] \in RestTokens THEN index + 1 ELSE index,
        notes |-> <<>>, duration |-> "", accent |-> accent]

\* A parseStem whose duration after a chord leaves the time of a note that
\* is not that of a unit note as it is.
stemDurationKeepsOwn(tokens, h) ==
  IF looksLikeDuration(tokens, h.index)
  THEN [h EXCEPT !.index = @ + 1,
                 !.duration = tokens[h.index],
                 !.notes = [k \in DOMAIN @ |->
                              IF @[k].time # One THEN @[k]
                              ELSE [@[k] EXCEPT
                                      !.time = durationToTime(tokens[h.index])]]]
  ELSE h

\* parseStem, "look for a duration marking": it applies to all the notes.
stemDuration(tokens, h) ==
  IF looksLikeDuration(tokens, h.index)
  THEN [h EXCEPT !.index = @ + 1,
                 !.duration = tokens[h.index],
                 !.notes = [k \in DOMAIN @ |->
                              [@[k] EXCEPT
                                 !.time = durationToTime(tokens[h.index])]]]
  ELSE h

\* parseStem, "look for a trailing tie marking": it ties every note.
stemTie(tokens, h) ==
  IF h.index <= Len(tokens) /\ tokens[h.index] = "-"
  THEN [h EXCEPT !.index = @ + 1,
                 !.notes = [k \in DOMAIN @ |-> [@[k] EXCEPT !.tie = TRUE]]]
  ELSE h

\* parseStem, "if (accent.dynamics)": the velocity of every note.
stemVelocity(h) ==
  IF Falsy(h.accent.dynamics) THEN h
  ELSE [h EXCEPT !.notes = [k \in DOMAIN @ |->
                              [@[k] EXCEPT !.velocity = h.accent.dynamics]]]

\* parseStem.  The object accent is changed in place, also when parseStem
\* returns null.
stemOf(h) ==
  [ok |-> h.ok, index |-> h.index, accent |-> h.accent,
   stem |-> [time |-> durationToTime(h.duration), staccato |-> FALSE,
             notes |-> h.notes]]
parseStem(tokens, index, key, accent) ==
  stemOf(stemVelocity(stemTie(tokens, stemDuration(tokens,
           stemHead(tokens, index, key, accent)))))

\* parseBeatlet: the factor of the tuplet and the number of its stems.
parseBeatlet(token) ==
  LET m == beatletMatch(token)
      count == m[1]
      beats == IF m[2] # 0 THEN m[2] ELSE 2
      duration == IF m[3] # 0 THEN m[3] ELSE count
  IN [on |-> TRUE, time |-> Rat(beats, count), count |-> duration]
NoBeatlet == [on |-> FALSE, time |-> One, count |-> 0]

\* parseDecoration
parseDecoration(token, accent) ==
  CASE token = "!p!" -> [accent EXCEPT !.dynamics = Rat(6, 10)]
    [] token = "!mp!" -> [accent EXCEPT !.dynamics = Rat(8, 10)]
    [] OTHER -> accent

\* scaleStem
scaleStem(stem, s) ==
  [stem EXCEPT !.time = RatMul(@, s),
               !.notes = [k \in DOMAIN @ |->
                            [@[k] EXCEPT !.time = RatMul(@, s)]]]

\* syncopateStem
syncopateStem(stem, t) ==
  [stem EXCEPT !.time = RatAdd(@, t),
               !.notes = [k \in DOMAIN @ |->
                            IF @[k].time = stem.time
                            THEN [@[k] EXCEPT !.time = RatAdd(stem.time, t)]
                            ELSE @[k]]]

\* The state of parseABCFile.  voice is result.voice: a voice that has been
\* started is made, and has its stems and its object accent.  top tells
\* that context is result, else context is the voice id.  The variable
\* accent is the object accent0 made at the start while context is result,
\* and the object accent of the voice afterwards.  V is the first word of
\* result.V.  index, dotted and beatlet are the variables of parseABCNotes.
\* raised tells that a TypeError has been thrown, which ends parseABCFile.
\* The names of voices include the name of a method that result.voice
\* inherits from Object.prototype.
VoiceIds == {"", "1", "2", "hasOwnProperty"}
NewVoice == [made |-> FALSE, stems |-> <<>>, accent |-> NewAccent]
NewParse ==
  [voice |-> [id \in VoiceIds |-> NewVoice], top |-> TRUE, id |-> "",
   accent0 |-> NewAccent, key |-> NoKey, V |-> "", raised |-> FALSE,
   index |-> 1, dotted |-> 0, beatlet |-> NoBeatlet]

currentAccent(P) == IF P.top THEN P.accent0 ELSE P.voice[P.id].accent
setAccent(P, accent) ==
  IF P.top THEN [P EXCEPT !.accent0 = accent]
  ELSE [P EXCEPT !.voice[P.id].accent = accent]
\* context.stems, none when context is result
contextStems(P) == IF P.top THEN <<>> ELSE P.voice[P.id].stems

\* firstVoiceName
firstVoiceName(P) == P.V

\* startVoiceContext.  "result.voice.hasOwnProperty(id)" calls the property
\* hasOwnProperty of result.voice, which is the voice of that name once one
\* has been made, and no function: the call throws a TypeError.
startVoiceContext(P, id) ==
  IF id = "" /\ ~P.top THEN P
  ELSE IF P.voice["hasOwnProperty"].made THEN [P EXCEPT !.raised = TRUE]
  ELSE IF P.voice[id].made THEN [P EXCEPT !.top = FALSE, !.id = id]
  ELSE [P EXCEPT !.top = FALSE, !.id = id,
                 !.voice[id] = [made |-> TRUE, stems |-> <<>>,
                                accent |-> NewAccent]]

\* A line of a file: the header field and its value where ABCheader
\* matches (the name of a key for K, the name of a voice for V), else the
\* tokens of a line of notes.
NoteLine(tokens) == [field |-> "", key |-> <<>>, id |-> "", tokens |-> tokens]
KeyLine(keyname) == [field |-> "K", key |-> keyname, id |-> "", tokens |-> <<>>]
VoiceLine(id) == [field |-> "V", key |-> <<>>, id |-> id, tokens |-> <<>>]

\* handleInformation, for the fields K and V.
handleInformation(P, line) ==
  IF line.field = "V"
  THEN IF ~P.top THEN startVoiceContext(P, line.id)
       ELSE [P EXCEPT !.V = IF @ = "" THEN line.id ELSE @]
  ELSE IF line.field = "K"
  THEN startVoiceContext([P EXCEPT !.key = keysig(line.key)],
                         IF P.top THEN firstVoiceName(P) ELSE "")
  ELSE P

\* parseABCNotes, "if (beatlet)": the stem is scaled and counted.
beatletStem(P, stem) ==
  IF P.beatlet.on THEN scaleStem(stem, P.beatlet.time) ELSE stem
beatletCount(P) ==
  IF ~P.beatlet.on THEN P
  ELSE IF P.beatlet.count - 1 = 0 THEN [P EXCEPT !.beatlet = NoBeatlet]
  ELSE [P EXCEPT !.beatlet.count = @ - 1]

\* parseABCNotes, "if (dotted && context.stems && context.stems.length)":
\* the beats t that go from the stem to the stem before it, ...
dottedShift(P, stem) ==
  IF P.dotted > 0
  THEN RatMul(RatSub(One, HalfPow(P.dotted)), stem.time)
  ELSE RatMul(RatSub(HalfPow(-P.dotted), One),
              contextStems(P)[Len(contextStems(P))].time)
\* ... the stem after that, ...
dottedStem(P, stem) ==
  IF P.dotted # 0 /\ contextStems(P) # <<>>
  THEN syncopateStem(stem, RatSub(Zero, dottedShift(P, stem)))
  ELSE stem
\* A parseABCNotes that forgets "dotted = 0" after a stem that has been
\* syncopated.
dottedPreviousKeeps(P, stem) ==
  IF P.dotted # 0 /\ contextStems(P) # <<>>
  THEN [P EXCEPT !.voice[P.id].stems[Len(contextStems(P))] =
                   syncopateStem(@, dottedShift(P, stem))]
  ELSE [P EXCEPT !.dotted = 0]

\* ... and the stem before it.
dottedPrevious(P, stem) ==
  IF P.dotted # 0 /\ contextStems(P) # <<>>
  THEN [P EXCEPT !.voice[P.id].stems[Len(contextStems(P))] =
                   syncopateStem(@, dottedShift(P, stem)),
                 !.dotted = 0]
  ELSE [P EXCEPT !.dotted = 0]

\* parseABCNotes, the end of the loop: a voice is started if none is, and
\* the stem is added to its stems.
pushed(Q, stem, index) ==
  IF Q.raised THEN Q
  ELSE [Q EXCEPT !.voice[Q.id].stems = Append(@, stem), !.index = index]
pushStem(P, stem, index) ==
  pushed(IF P.top THEN startVoiceContext(P, firstVoiceName(P)) ELSE P,
         stem, index)

\* parseABCNotes, from parseStem on.
addStem(R, scaled, index) ==
  pushStem(dottedPrevious(R, scaled), dottedStem(R, scaled), index)
afterStem(Q, parsed) ==
  IF ~parsed.ok THEN [Q EXCEPT !.index = @ + 1]
  ELSE addStem(beatletCount(Q), beatletStem(Q, parsed.stem), parsed.index)
parsedStem(P, parsed) == afterStem(setAccent(P, parsed.accent), parsed)
stemStep(tokens, P) ==
  parsedStem(P, parseStem(tokens, P.index, P.key, currentAccent(P)))

\* parseABCNotes, one turn of the loop over the tokens.
tokenStep(tokens, P) ==
  LET token == tokens[P.index] IN
  IF token = " " THEN [P EXCEPT !.index = @ + 1]
  ELSE IF token \in {"<", "<<"}
  THEN [P EXCEPT !.index = @ + 1, !.dotted = -tokenLength(token)]
  ELSE IF token \in {">", ">>"}
  THEN [P EXCEPT !.index = @ + 1, !.dotted = tokenLength(token)]
  ELSE IF token \in BeatletTokens
  THEN [P EXCEPT !.index = @ + 1, !.beatlet = parseBeatlet(token)]
  ELSE IF token \in DecorationTokens
  THEN [setAccent(P, parseDecoration(token, currentAccent(P)))
          EXCEPT !.index = @ + 1]
  ELSE IF token = "|"
  THEN [setAccent(P, [currentAccent(P) EXCEPT !.acc = NoKey])
          EXCEPT !.index = @ + 1]
  ELSE stemStep(tokens, P)

RECURSIVE notesLoop(_, _)
notesLoop(tokens, P) ==
  IF P.raised \/ P.index > Len(tokens) THEN P
  ELSE notesLoop(tokens, tokenStep(tokens, P))

\* parseABCNotes: index, dotted and beatlet are its own variables.
parseABCNotes(tokens, P) ==
  notesLoop(tokens, [P EXCEPT !.index = 1, !.dotted = 0,
                              !.beatlet = NoBeatlet])

\* parseABCFile, the loop over the lines.
RECURSIVE parseLines(_, _, _)
parseLines(lines, j, P) ==
  IF P.raised \/ j > Len(lines) THEN P
  ELSE IF lines[j].field # ""
  THEN parseLines(lines, j + 1, handleInformation(P, lines[j]))
  ELSE parseLines(lines, j + 1, parseABCNotes(lines[j].tokens, P))

\* processTies.  tied and nextTied map a pitch to the place <<stem, note>> of
\* the earliest note of its tie, <<0, 0>> when the pitch is not tied.
NoTie == [p \in PitchTokens |-> <<0, 0>>]

\* A processTies that forgets "note.holdover = true".
RECURSIVE tieNotesNoHoldover(_, _, _, _, _)
tieNotesNoHoldover(stems, j, k, tied, nextTied) ==
  IF k > Len(stems[j].notes) THEN [stems |-> stems, nextTied |-> nextTied]
  ELSE
    LET note == stems[j].notes[k]
        wasTied == tied[note.pitch] # <<0, 0>>
        first == IF wasTied THEN tied[note.pitch] ELSE <<j, k>>
        stems1 == IF wasTied
                  THEN [stems EXCEPT
                          ![first[1]].notes[first[2]].time = RatAdd(@, note.time)]
                  ELSE stems
        nextTied1 == IF note.tie THEN [nextTied EXCEPT ![note.pitch] = first]
                     ELSE nextTied
    IN tieNotesNoHoldover(stems1, j, k + 1, tied, nextTied1)

\* processTies, the loop over the notes of stem j.
RECURSIVE tieNotes(_, _, _, _, _)
tieNotes(stems, j, k, tied, nextTied) ==
  IF k > Len(stems[j].notes) THEN [stems |-> stems, nextTied |-> nextTied]
  ELSE
    LET note == stems[j].notes[k]
        wasTied == tied[note.pitch] # <<0, 0>>
        first == IF wasTied THEN tied[note.pitch] ELSE <<j, k>>
        stems1 == IF wasTied
                  THEN [stems EXCEPT
                          ![first[1]].notes[first[2]].time = RatAdd(@, note.time),
                          ![j].notes[k].holdover = TRUE]
                  ELSE stems
        nextTied1 == IF note.tie THEN [nextTied EXCEPT ![note.pitch] = first]
                     ELSE nextTied
    IN tieNotes(stems1, j, k + 1, tied, nextTied1)

\* A processTies that keeps the ties of earlier stems: it forgets that
\* "tied = nextTied" drops them.
RECURSIVE tieStemsCarry(_, _, _)
tieStemsCarry(stems, j, tied) ==
  IF j > Len(stems) THEN stems
  ELSE LET r == tieNotes(stems, j, 1, tied, NoTie)
       IN tieStemsCarry(r.stems, j + 1,
                        [p \in PitchTokens |->
                           IF r.nextTied[p] # <<0, 0>> THEN r.nextTied[p]
                           ELSE tied[p]])

RECURSIVE tieStems(_, _, _)
tieStems(stems, j, tied) ==
  IF j > Len(stems) THEN stems
  ELSE LET r == tieNotes(stems, j, 1, tied, NoTie)
       IN tieStems(r.stems, j + 1, r.nextTied)

processTies(stems) == tieStems(stems, 1, NoTie)

\* parseABCFile: the stems of every voice, none for a voice that has none.
parseABCFile(lines) ==
  [id \in VoiceIds |-> processTies(parseLines(lines, 1, NewParse).voice[id].stems)]

\* pitchToFrequency, the frequency given by its number: pitches that differ
\* have frequencies that differ.
pitchToFrequency(p) ==
  CASE p = "C" -> 1
    [] p = "D" -> 2
    [] p = "E" -> 3
    [] p = "F" -> 4

\* ------------------------------------------------------------- play()
\* A parsed tune, as parseABCFile returns it, is here one voice: a sequence
\* of stems, each with a time in beats and its notes.
Note(p) == [pitch |-> p, time |-> Zero, holdover |-> FALSE, slurred |-> FALSE]
Stem(t, ns) == [time |-> t, staccato |-> FALSE, notes |-> ns]
Songs == { <<Stem(Rat(2, 1), <<Note(1)>>)>>,
           <<Stem(Rat(2, 1), <<Note(1)>>), Stem(Rat(2, 1), <<Note(2)>>)>> }
SongNotes(song) ==
  LET RECURSIVE count(_)
      count(st) == IF st = <<>> THEN 0 ELSE Len(Head(st).notes) + count(Tail(st))
  IN count(song)

beatsecs(tempo) == (60 * TicksPerSec) \div tempo

\* The duration in ticks that play() gives to a note.
noteSecs(note, stem, bs, timbre) ==
  LET secs == RatTicks(IF ~Falsy(note.time) THEN note.time ELSE stem.time,
                      bs) IN
  IF stem.staccato
  THEN Min2(Min2(secs, bs \div 16), timbre.attack + timbre.decay)
  ELSE IF ~note.slurred /\ secs >= slurMin THEN secs - slurGap ELSE secs

RECURSIVE playNotes(_, _, _, _, _, _)
playNotes(w, i, stem, j, bs, delay) ==
  IF j > Len(stem.notes) THEN w
  ELSE LET note == stem.notes[j]
           secs == noteSecs(note, stem, bs, w.inst[i].timbre)
       IN playNotes(IF note.holdover THEN w
                    ELSE tone(w, i, note.pitch, secs, 1, delay),
                    i, stem, j + 1, bs, delay)

\* A play() that does not advance the time for a stem that is a rest.
RECURSIVE playStemsSkipRests(_, _, _, _, _)
playStemsSkipRests(w, i, stems, bs, delay) ==
  IF stems = <<>> THEN w
  ELSE playStemsSkipRests(playNotes(w, i, Head(stems), 1, bs, delay), i,
                          Tail(stems), bs,
                          IF Head(stems).notes = <<>> THEN delay
                          ELSE delay + RatTicks(Head(stems).time, bs))

RECURSIVE playStems(_, _, _, _, _)
playStems(w, i, stems, bs, delay) ==
  IF stems = <<>> THEN w
  ELSE playStems(playNotes(w, i, Head(stems), 1, bs, delay), i, Tail(stems),
                 bs, delay + RatTicks(Head(stems).time, bs))

RECURSIVE songTime(_)
songTime(stems) ==
  IF stems = <<>> THEN Zero
  ELSE RatAdd(Head(stems).time, songTime(Tail(stems)))

\* Instrument.prototype.play(song, done), with no options.  c is the
\* callback done, 0 when none is given.  Without an audio backend done is
\* called at once; otherwise it is scheduled after the last stem.
play(w, i, song, c) ==
  LET bs == beatsecs(defaultTempo)
      maxdelay == RatTicks(songTime(song), bs)
      w1 == now(playStems(w, i, song, bs, 0), i)
  IN IF ~w.inst[i].atop
     THEN IF c = 0 THEN w
          ELSE Push([w EXCEPT !.hist.cbCnt = Bump(@, c)],
                    Frame("play", i, <<>>, TRUE))
     ELSE IF c = 0 THEN w1 ELSE schedule(w1, i, maxdelay, c)

\* Instrument.prototype.play(tune): the tune is parsed, and tone() turns the
\* pitch of each note into its frequency.
playABC(w, i, tokens) ==
  LET stems == parseABCFile(<<NoteLine(tokens)>>)[""]
      voiced == [k \in DOMAIN stems |->
                   [stems[k] EXCEPT !.notes =
                      [j \in DOMAIN @ |->
                         [@[j] EXCEPT !.pitch = pitchToFrequency(@)]]]]
  IN play(w, i, voiced, 0)

\* Instrument.prototype.on
on(w, i, eventname, h) ==
  [w EXCEPT !.inst[i].handlers[eventname] = Append(@, h)]

\* Instrument.prototype.off; h = 0 stands for a call without a handler.
off(w, i, eventname, h) ==
  [w EXCEPT !.inst[i].handlers[eventname] =
     IF h = 0 THEN <<>> ELSE SelectSeq(@, LAMBDA x : x # h)]

\* Instrument.prototype.setVolume, for a number v.
setVolume(w, i, v) ==
  IF ~w.inst[i].out THEN w ELSE [w EXCEPT !.inst[i].volume = v]

\* Instrument.prototype.getVolume
getVolume(w, i) == IF ~w.inst[i].out THEN 0 ELSE w.inst[i].volume

\* Instrument.prototype.setTimbre
setTimbre(w, i, t) == [w EXCEPT !.inst[i].timbre = t]

\* function Instrument(options)
construct(w, i) ==
  LET w1 == [w EXCEPT !.inst[i] = [NewInst EXCEPT !.made = TRUE, !.atop = w.audio]]
  IN IF w.audio THEN silence(w1, i) ELSE w1

\* A _trigger that takes the shortcut for one handler whenever there is a
\* handler: it calls the first and returns.
triggerFirstOnly(w, i, eventname, r) ==
  LET cb == w.inst[i].handlers[eventname]
      caller == Top(w)
      F == [Frame("trigger", i, <<>>, TRUE)
              EXCEPT !.event = eventname, !.rec = r, !.cb = cb,
                     !.got = SubSeq(cb, 1, 1),
                     !.poll = (caller.kind = "poll"),
                     !.snap = caller.snap[eventname]]
  IN IF cb = <<>>
     THEN Unwind([w EXCEPT
                    !.trig = [valid |-> TRUE, event |-> eventname, rec |-> r,
                              cb |-> cb, got |-> <<>>,
                              poll |-> (caller.kind = "poll"),
                              snap |-> caller.snap[eventname]]])
     ELSE Push(w, F)

\* Instrument.prototype._trigger: the handlers registered when it is called
\* are called in turn, the first of them at once.
trigger(w, i, eventname, r) ==
  LET cb == w.inst[i].handlers[eventname]
      w1 == [w EXCEPT
               !.hist.onCnt = IF eventname = "noteon" THEN Bump(@, r) ELSE @,
               !.hist.offCnt = IF eventname = "noteoff" THEN Bump(@, r) ELSE @,
               !.hist.lateRecs = IF r \in w.hist.deadRecs THEN @ \cup {r} ELSE @]
      caller == Top(w)
      F == [Frame("trigger", i,
                  [k \in 1..(Len(cb) - 1) |-> Item(0, 0, "handler", cb[k + 1])],
                  TRUE)
              EXCEPT !.event = eventname, !.rec = r, !.cb = cb,
                     !.got = SubSeq(cb, 1, 1),
                     !.poll = (caller.kind = "poll"),
                     !.snap = caller.snap[eventname]]
  IN IF cb = <<>>
     THEN Unwind([w1 EXCEPT
                    !.trig = [valid |-> TRUE, event |-> eventname, rec |-> r,
                              cb |-> cb, got |-> <<>>,
                              poll |-> (caller.kind = "poll"),
                              snap |-> caller.snap[eventname]]])
     ELSE Push(w1, F)

\* One call made by the loop on top of the stack: cb.f.apply(cb.t, cb.a) in
\* _doPoll, this._trigger(...) or callbacks[j].callback() in silence(),
\* cb[j](record) in _trigger.
deliver(w, it) ==
  LET n == Len(w.stack)
      i == w.stack[n].inst
      w1 == [w EXCEPT !.stack[n].todo = Tail(@)]
  IN IF it.kind = "cb"
     THEN [w1 EXCEPT !.stack[n].running = TRUE,
                     !.hist.cbCnt = Bump(@, it.id),
                     !.hist.lateCbs = IF it.id \in w.hist.deadCbs
                                      THEN @ \cup {it.id} ELSE @]
     ELSE IF it.kind = "handler"
     THEN [w1 EXCEPT !.stack[n].running = TRUE,
                     !.stack[n].got = Append(@, it.id)]
     ELSE trigger(w1, i, it.kind, it.id)

\* -------------------------------------------------------------- actions
\* Garbage collection: a tone record or callback that no queue, set or
\* pending call refers to can no longer be observed; its fields are reset.
LiveRecs(w) ==
  UNION {Range(w.inst[i].queue) \cup Range(w.inst[i].startSet)
         \cup Range(w.inst[i].finishSet) \cup Range(w.inst[i].cleanupSet)
         : i \in Insts}
  \cup UNION {{w.stack[n].todo[k].id : k \in
                 {m \in 1..Len(w.stack[n].todo) :
                    w.stack[n].todo[m].kind \in Events}}
              : n \in 1..Len(w.stack)}

LiveCbs(w) ==
  UNION {Range(w.inst[i].callbackSet) : i \in Insts}
  \cup UNION {{w.stack[n].todo[k].id : k \in
                 {m \in 1..Len(w.stack[n].todo) :
                    w.stack[n].todo[m].kind = "cb"}}
              : n \in 1..Len(w.stack)}

collect(w) ==
  [w EXCEPT
     !.rec = [r \in DOMAIN @ |->
                IF r \in LiveRecs(w) THEN @[r]
                ELSE NewRecord(@[r].inst, 0, 1, 0, 0, 0)],
     !.cbs = [c \in DOMAIN @ |->
                IF c \in LiveCbs(w) THEN @[c] ELSE [@[c] EXCEPT !.time = Null]]]

Store(w0, op, i, arg) ==
  \E w1 \in {w0} : \E w \in {collect(w1)} :
  /\ audio' = w.audio
  /\ clock' = w.clock
  /\ currentStart' = w.currentStart
  /\ inst' = w.inst
  /\ rec' = w.rec
  /\ cbs' = w.cbs
  /\ stack' = w.stack
  /\ hist' = w.hist
  /\ last' = [op |-> op, inst |-> i, arg |-> arg, err |-> w.err,
              log |-> w.log, ret |-> w.ret, trig |-> w.trig]

\* Script may call a method when the event loop starts a script (the stack
\* is empty) or from inside a handler or callback that is running.
Idle == stack = <<>>
Running == stack # <<>> /\ stack[Len(stack)].running
CanCall(i) == inst[i].made /\ (Idle \/ Running)
CanSubmit(i) ==
  inst[i].made /\ (Running \/ (Idle /\ clock <= MaxCallSecs * TicksPerSec))

Init ==
  /\ audio \in BOOLEAN
  /\ clock = 0
  /\ currentStart = Null
  /\ inst = [i \in Insts |-> NewInst]
  /\ rec = <<>>
  /\ cbs = <<>>
  /\ stack = <<>>
  /\ hist = NoHist
  /\ last = NoLast

Construct(i) ==
  /\ ~inst[i].made
  /\ \A k \in 1..(i - 1) : inst[k].made
  /\ Idle \/ Running
  /\ Store(construct(World, i), "construct", i, 0)

Tone(i, durations, delays) ==
  /\ CanSubmit(i)
  /\ Len(rec) < MaxRecs
  /\ \E f \in Freqs, d \in durations, v \in Velocities, dl \in delays :
       Store(tone(World, i, f, d, v, dl), "tone", i, 0)

Schedule(i, delays) ==
  /\ CanSubmit(i)
  /\ Len(cbs) < MaxCbs
  /\ \E dl \in delays :
       Store(schedule(AllocCallback(World, i), i, dl, Len(cbs) + 1),
             "schedule", i, Len(cbs) + 1)

Play(i) ==
  /\ CanSubmit(i)
  /\ \E song \in Songs, done \in BOOLEAN :
       /\ Len(rec) + SongNotes(song) <= MaxRecs
       /\ done => Len(cbs) < MaxCbs
       /\ IF done
          THEN Store(play(AllocCallback(World, i), i, song, Len(cbs) + 1),
                     "play", i, Len(cbs) + 1)
          ELSE Store(play(World, i, song, 0), "play", i, 0)

Silence(i) ==
  /\ CanCall(i)
  /\ Store(silence(World, i), "silence", i, 0)

\* A handler function is registered at most once for an event.
On(i, events, hs) ==
  /\ CanCall(i)
  /\ \E e \in events, h \in hs :
       /\ h \notin Range(inst[i].handlers[e])
       /\ Store(on(World, i, e, h), "on", i, 0)

\* A page that registers its noteoff handlers before it requests any tone.
SetupOn(i) ==
  /\ rec = <<>> /\ cbs = <<>>
  /\ On(i, {"noteoff"}, {1})

Off(i, events) ==
  /\ CanCall(i)
  /\ \E e \in events, h \in {0} \cup Handlers :
       Store(off(World, i, e, h), "off", i, 0)

SetVolume(i) ==
  /\ CanCall(i)
  /\ \E v \in Volumes : Store(setVolume(World, i, v), "setVolume", i, 0)

GetVolume(i) ==
  /\ CanCall(i)
  /\ Store(World, "getVolume", i, getVolume(World, i))

SetTimbre(i) ==
  /\ CanCall(i)
  /\ \E t \in Timbres : Store(setTimbre(World, i, t), "setTimbre", i, 0)

GetTimbre(i) ==
  /\ CanCall(i)
  /\ Store(World, "getTimbre", i, inst[i].timbre.release)

\* The poll timer of instrument i fires: no sooner than it is due, and only
\* when no script is running.  Timers of equal delay fire in the order in
\* which they were set: a zero-delay poll timer set by now() comes after the
\* zero-delay timer that clears the start time cached for that same call.
Poll(i) ==
  /\ Idle
  /\ inst[i].pollTimer # Null
  /\ clock >= inst[i].pollTimer
  /\ currentStart = Null \/ inst[i].now = Null
  /\ \E interrupted \in BOOLEAN :
       Store(doPoll(World, i, interrupted), "poll", i, 0)

\* The zero-delay timer set by audioCurrentStartTime fires.
ClearCurrentStart ==
  /\ Idle
  /\ currentStart # Null
  /\ Store([World EXCEPT !.currentStart = Null], "clearStart", 0, 0)

\* The audio clock advances while no script runs.
Advance ==
  /\ Idle
  /\ clock < MaxClockSecs * TicksPerSec
  /\ Store([World EXCEPT !.clock = @ + TicksPerSec], "advance", 0, 0)

\* The loop on top of the stack makes its next call.
Deliver ==
  /\ stack # <<>>
  /\ ~stack[Len(stack)].running
  /\ LET it == Head(stack[Len(stack)].todo)
     IN Store(deliver(World, it), it.kind, stack[Len(stack)].inst, it.id)

\* The handler or callback that is running returns.
Return ==
  /\ Running
  /\ Store(Unwind([World EXCEPT !.stack[Len(stack)].running = FALSE]),
           "return", stack[Len(stack)].inst, 0)

\* One instrument with an audio backend or without: the scheduler, its
\* timers, and the scripts, handlers and callbacks that call into it.
Next ==
  \/ Construct(1)
  \/ Tone(1, Durations, Delays)
  \/ Schedule(1, Delays)
  \/ Play(1)
  \/ Silence(1)
  \/ SetupOn(1)
  \/ Poll(1)
  \/ ClearCurrentStart
  \/ Advance
  \/ Deliver
  \/ Return

Spec == Init /\ [][Next]_vars

\* Several instruments that share the audio backend.
NextDuo ==
  \/ \E i \in Insts : Construct(i)
  \/ \E i \in Insts : Tone(i, DuoDurations, DuoDelays)
  \/ \E i \in Insts : Schedule(i, DuoDelays \ {0})
  \/ \E i \in Insts : Silence(i)
  \/ \E i \in Insts : Poll(i)
  \/ ClearCurrentStart
  \/ Advance
  \/ Deliver
  \/ Return

InitDuo == Init /\ audio

SpecDuo == InitDuo /\ [][NextDuo]_vars

\* A page without an audio backend: every public operation of one instrument.
NextNoAudio ==
  \/ Construct(1)
  \/ Tone(1, Durations, Delays)
  \/ Schedule(1, Delays)
  \/ Play(1)
  \/ Silence(1)
  \/ On(1, Events, Handlers)
  \/ Off(1, Events)
  \/ SetVolume(1)
  \/ GetVolume(1)
  \/ SetTimbre(1)
  \/ GetTimbre(1)
  \/ Advance
  \/ Return

InitNoAudio == Init /\ ~audio

SpecNoAudio == InitNoAudio /\ [][NextNoAudio]_vars

\* A page that registers noteon handlers before it requests any tone, and
\* whose handlers register and remove handlers while they run.
HandlerOn(i) ==
  /\ Running \/ rec = <<>>
  /\ On(i, {"noteon"}, Handlers)

HandlerOff(i) ==
  /\ Running
  /\ Off(i, {"noteon"})

\* That page: one instrument with an audio backend, tones of one duration,
\* no one-shot callbacks.
NextHandlers ==
  \/ Construct(1)
  \/ Tone(1, DuoDurations, DuoDelays)
  \/ HandlerOn(1)
  \/ HandlerOff(1)
  \/ Poll(1)
  \/ ClearCurrentStart
  \/ Advance
  \/ Deliver
  \/ Return

SpecHandlers == InitDuo /\ [][NextHandlers]_vars

\* Scripts that the page starts at any time (a click, a key): they request
\* tones and callbacks whatever the clock shows.
ToneAnytime(i) ==
  /\ CanCall(i)
  /\ Len(rec) < MaxRecs
  /\ \E f \in Freqs, dl \in DuoDelays :
       Store(tone(World, i, f, TicksPerSec, 1, dl), "tone", i, 0)

ScheduleAnytime(i) ==
  /\ CanCall(i)
  /\ Len(cbs) < MaxCbs
  /\ \E dl \in DuoDelays :
       Store(schedule(AllocCallback(World, i), i, dl, Len(cbs) + 1),
             "schedule", i, Len(cbs) + 1)

\* One instrument with an audio backend and such scripts.
NextBurst ==
  \/ Construct(1)
  \/ ToneAnytime(1)
  \/ ScheduleAnytime(1)
  \/ Poll(1)
  \/ ClearCurrentStart
  \/ Advance
  \/ Deliver
  \/ Return

SpecBurst == InitDuo /\ [][NextBurst]_vars

\* _makeSound and _truncateSound called on their own, with one record and
\* truncation times of every kind: start times from minStartTime in steps
\* of a second, truncation times in steps of a quarter of a second.
TruncStarts == {minStartTime + d : d \in Delays}
TruncTimes ==
  {k * (TicksPerSec \div 4) : k \in 0..(4 * (MaxDelaySecs + MaxDurSecs) + 2)}

MakeSound(i) ==
  /\ Idle
  /\ inst[i].atop
  /\ rec = <<>>
  /\ \E f \in Freqs, time \in TruncStarts, d \in Durations, v \in {0, 1} :
       Store(makeSound(AllocRecord(World,
                         NewRecord(i, time, f, v, d, inst[i].timbre.release)),
                       i, Len(rec) + 1),
             "makeSound", i, 0)

TruncateSound(i) ==
  /\ Idle
  /\ \E k \in 1..Len(inst[i].startSet), t \in TruncTimes :
       Store(truncateSound(World, inst[i].startSet[k], t),
             "truncate", inst[i].startSet[k], t)

NextTruncate ==
  \/ Construct(1)
  \/ MakeSound(1)
  \/ TruncateSound(1)

SpecTruncate == InitDuo /\ [][NextTruncate]_vars

\* Scripts that also request tones of velocity zero, on a page that has
\* registered no handler and schedules no callback.
ToneQuiet(i) ==
  /\ CanSubmit(i)
  /\ Len(rec) < MaxRecs
  /\ \E f \in Freqs, d \in Durations, v \in {0, 1}, dl \in DuoDelays :
       Store(tone(World, i, f, d, v, dl), "tone", i, 0)

NextQuiet ==
  \/ Construct(1)
  \/ ToneQuiet(1)
  \/ Poll(1)
  \/ ClearCurrentStart
  \/ Advance
  \/ Deliver

SpecQuiet == InitDuo /\ [][NextQuiet]_vars

\* Scripts that request tones with a timbre of their own, which has some of
\* the fields of a timbre, all of them or none.
GivenTimbres ==
  UNION {[keys -> {800}] : keys \in SUBSET (DOMAIN defaultTimbre)}

ToneTimbre(i) ==
  /\ CanSubmit(i)
  /\ Len(rec) < MaxRecs
  /\ \E f \in Freqs, d \in DuoDurations, dl \in DuoDelays,
        given \in GivenTimbres :
       Store(toneTimbre(World, i, f, d, 1, dl, given), "toneTimbre", i, given)

NextTimbre ==
  \/ Construct(1)
  \/ ToneTimbre(1)
  \/ Poll(1)
  \/ ClearCurrentStart
  \/ Advance
  \/ Deliver

SpecTimbre == InitDuo /\ [][NextTimbre]_vars

\* Tunes: up to MaxStems pieces of text, each a stem (a note, a chord or a
\* rest, with or without a duration and a tie), a bar line or a stray token;
\* and the tune CDEF.
StemTexts ==
  { <<"C">>, <<"C", "-">>, <<"C", "2">>, <<"C", "2", "-">>,
    <<"D">>, <<"D", "-">>, <<"z">>, <<"z", "2">>, <<"|">>,
    <<"[", "C", "D", "]">>, <<"[", "C", "-", "D", "3", "]">>,
    <<"[", "C", "D", "]", "2", "-">>,
    <<"-">>, <<"[">>, <<"2">> }

RECURSIVE TunesOf(_)
TunesOf(n) ==
  IF n = 0 THEN {<<>>}
  ELSE TunesOf(n - 1) \cup {s \o t : s \in TunesOf(n - 1), t \in StemTexts}

Tunes == TunesOf(MaxStems) \cup {<<"C", "D", "E", "F">>}

\* A script plays a tune as its first call on an instrument.
PlayABC(i) ==
  /\ CanSubmit(i)
  /\ rec = <<>>
  /\ inst[i].now = Null
  /\ \E tune \in Tunes : Store(playABC(World, i, tune), "play", i, tune)

NextPlay ==
  \/ Construct(1)
  \/ PlayABC(1)

SpecPlay == InitDuo /\ [][NextPlay]_vars

\* Files for parseABCFile.  A line of notes is up to MaxTokens tokens of a
\* set of tokens.
RECURSIVE LinesOf(_, _)
LinesOf(tokens, n) ==
  IF n = 0 THEN {<<>>}
  ELSE LinesOf(tokens, n - 1)
       \cup {Append(s, t) : s \in LinesOf(tokens, n - 1), t \in tokens}

\* Files about accidentals: with no header or with a K: line, one or two
\* lines of pitches and bar lines; and files of two voices.
AccidentalTokens == {"C", "^C", "=C", "c", "F", "|"}
AccidentalKeys == {<<"C">>, <<"G">>, <<"D">>}
AccidentalFiles ==
  LET one == LinesOf(AccidentalTokens, MaxTokens) \ {<<>>}
      few == LinesOf(AccidentalTokens, MaxTokens - 1) \ {<<>>}
      last1 == {<<"C">>, <<"c">>, <<"|", "C">>, <<"F">>}
  IN {<<NoteLine(a)>> : a \in one}
     \cup {<<KeyLine(k), NoteLine(a)>> : k \in AccidentalKeys, a \in one}
     \cup {<<NoteLine(a), NoteLine(b)>> : a \in few, b \in last1}
     \cup {<<KeyLine(k), NoteLine(a), NoteLine(b)>> :
             k \in AccidentalKeys, a \in few, b \in last1}
     \cup {<<VoiceLine("1"), KeyLine(<<"C">>), NoteLine(a), VoiceLine("2"),
              NoteLine(b), VoiceLine("1"), NoteLine(b)>> :
             a \in {<<"^C">>, <<"^C", "|">>, <<"C">>}, b \in last1}

\* Files of one chord of two notes: each note with a duration of its own
\* or none and a tie of its own or none, and after the closing bracket a
\* duration or none and a tie or none.
OwnDurations == {<<>>, <<"2">>, <<"/2">>}
AfterDurations == {<<>>, <<"3">>, <<"/">>}
TieMarks == {<<>>, <<"-">>}
ChordNotes(pitch) == {<<pitch>> \o d \o t : d \in OwnDurations, t \in TieMarks}
ChordText(a, b, d, t) == <<"[">> \o a \o b \o <<"]">> \o d \o t
ChordFiles ==
  {<<NoteLine(ChordText(a, b, d, t))>> :
     a \in ChordNotes("C"), b \in ChordNotes("E"), d \in AfterDurations,
     t \in TieMarks}

\* Files of one line of tokens of which some begin no stem, and files that
\* name two voices, after a K: line or with no K: line.
JunkTokens == {"C", "[", "]", "2", "-", "~"}
JunkFiles == {<<NoteLine(a)>> : a \in LinesOf(JunkTokens, MaxTokens) \ {<<>>}}
VoiceText2(a, b) ==
  <<VoiceLine(a), NoteLine(<<"C">>), VoiceLine(b), NoteLine(<<"D">>)>>
VoiceFiles ==
  {VoiceText2(a, b) : a, b \in VoiceIds \ {""}}
  \cup {<<KeyLine(<<"C">>)>> \o VoiceText2(a, b) : a, b \in VoiceIds \ {""}}

\* Files of a note D, the marker of a tuplet and four notes C: all on one
\* line with a blank before the marker, the same with the marker right
\* after the note D, and with the last three notes on a second line.
TupletLine(m) == <<NoteLine(<<"D", " ", m, "C", "C", "C", "C">>)>>
TupletClose(m) == <<NoteLine(<<"D", m, "C", "C", "C", "C">>)>>
TupletBroken(m) ==
  <<NoteLine(<<"D", " ", m, "C">>), NoteLine(<<"C", "C", "C">>)>>
TupletFiles ==
  {TupletLine(m) : m \in BeatletTokens}
  \cup {TupletClose(m) : m \in BeatletTokens}
  \cup {TupletBroken(m) : m \in BeatletTokens}

\* Files of four stems D, C, E and F with a broken-rhythm mark between C
\* and E, which have a duration or none: on one line, and with the mark at
\* the start of a second line.
SyncDurations == {<<>>, <<"2">>, <<"3/2">>}
SyncLine(dx, mark, dy) ==
  <<NoteLine(<<"D", "C">> \o dx \o <<mark, "E">> \o dy \o <<"F">>)>>
SyncBroken(dx, mark, dy) ==
  <<NoteLine(<<"D", "C">> \o dx),
    NoteLine(<<mark, "E">> \o dy \o <<"F">>)>>
SyncFiles ==
  {SyncLine(dx, mark, dy) :
     dx \in SyncDurations, mark \in DottedTokens, dy \in SyncDurations}
  \cup {SyncBroken(dx, mark, dy) :
           dx \in SyncDurations, mark \in DottedTokens, dy \in SyncDurations}

\* Files of one line of notes C and decorations, with no header line and
\* after a K: line.
DynamicsTokens == {"C"} \cup DecorationTokens
DynamicsFiles ==
  {<<NoteLine(a)>> : a \in LinesOf(DynamicsTokens, MaxTokens) \ {<<>>}}
  \cup {<<KeyLine(<<"C">>), NoteLine(a)>> :
           a \in LinesOf(DynamicsTokens, MaxTokens) \ {<<>>}}

Files ==
  AccidentalFiles \cup ChordFiles \cup JunkFiles \cup VoiceFiles
  \cup TupletFiles \cup SyncFiles \cup DynamicsFiles

\* Names of keys: a root, a mode, and an accidental after them or none.
KeyRoots ==
  { <<"C">>, <<"G">>, <<"D">>, <<"A">>, <<"E">>, <<"B">>, <<"F", "#">>,
    <<"C", "#">>, <<"F">>, <<"B", "b">>, <<"E", "b">>, <<"A", "b">>,
    <<"D", "b">>, <<"G", "b">>, <<"C", "b">>, <<"G", "#">>, <<"D", "#">>,
    <<"A", "#">> }
KeyModes ==
  { <<>>, <<"m">>, <<"m", "a", "j">>, <<"m", "i", "n">>,
    <<" ", "m", "a", "j", "o", "r">>, <<" ", "m", "i", "n", "o", "r">>,
    <<"m", "i", "x">>, <<" ", "d", "o", "r", "i", "a", "n">>,
    <<"p", "h", "r">>, <<"l", "y", "d">>, <<"l", "o", "c">> }
KeyExtras ==
  { <<>>, <<" ", "^", "c">>, <<"=", "f">>, <<" ", "_", "b">>, <<"^", "G">> }
KeyNames == {r \o m \o x : r \in KeyRoots, m \in KeyModes, x \in KeyExtras}

\* A script asks for the accidentals of a key.
Keysig ==
  /\ last.op = "init"
  /\ \E keyname \in KeyNames :
       Store([World EXCEPT !.ret = keysig(keyname)], "keysig", 0, keyname)

\* A script parses a file.  The state of parseABCFile at the end of its
\* loop over the lines is kept as the result.
ParseABC ==
  /\ last.op = "init"
  /\ \E file \in Files :
       Store([World EXCEPT !.ret = parseLines(file, 1, NewParse)],
             "parse", 0, file)

\* A script asks for the beats of a duration.
DurationToTime ==
  /\ last.op = "init"
  /\ \E duration \in DurationTokens :
       Store([World EXCEPT !.ret = durationToTime(duration)],
             "durationToTime", 0, duration)

NextParse ==
  \/ ParseABC
  \/ Keysig
  \/ DurationToTime

SpecParse == InitDuo /\ [][NextParse]_vars

\* ------------------------------------------------------------ properties
\* The records of instrument i for which a noteon has been issued and no
\* noteoff yet.
Heard(i) ==
  {r \in DOMAIN rec :
     rec[r].inst = i /\ hist.onIss[r] > 0 /\ hist.offIss[r] = 0}

InSets(i) ==
  Range(inst[i].queue) \cup Range(inst[i].startSet)
  \cup (Range(inst[i].finishSet) \ {0})

\* The conflicts that the poll just run has met.
Conflicts == {last.log[k] : k \in DOMAIN last.log}

Audible(R) == R.duration > 0 /\ R.velocity > 0

\* C1: in every reachable state the sounding stage (_finishSet) of an
\* instrument holds at most one tone record per frequency: the records whose
\* noteon has been issued and whose noteoff has not are exactly the entries
\* of _finishSet, each under its own frequency, and no two of them have the
\* same frequency.
C1_OnePerFrequency ==
  \A i \in Insts :
    /\ Heard(i) = Range(inst[i].finishSet) \ {0}
    /\ \A f \in Freqs :
         inst[i].finishSet[f] # 0 => rec[inst[i].finishSet[f]].frequency = f
    /\ \A r, s \in Heard(i) : rec[r].frequency = rec[s].frequency => r = s

\* A poll has just let a record take the place of a sounding record of the
\* same frequency.
C1_Witness ==
  \E e \in Conflicts :
    /\ e.oldEarlier
    /\ e.sounding = e.new
    /\ inst[last.inst].finishSet[e.newBefore.frequency] = e.new

\* C2 (as the specification states it): when a record R reaches its start
\* time in a poll while an earlier record S of the same frequency is
\* sounding, S is truncated to end exactly at R's start time, a noteoff for S
\* stamped with R's start time is issued in that poll, S leaves the sounding
\* stage, and R enters it with a noteon and keeps its end time.
C2_Original ==
  \A e \in Conflicts :
    e.oldEarlier =>
      /\ EndTime(e.oldAfter) = e.newBefore.time
      /\ Item(e.newBefore.time, 0, "noteoff", e.old) \in Range(e.pushed)
      /\ e.sounding = e.new
      /\ Item(e.newBefore.time, 2, "noteon", e.new) \in Range(e.pushed)
      /\ EndTime(e.newAfter) = e.newBefore.time + e.newBefore.duration

\* C2 (amended): in that case S keeps its start and ends at R's start time
\* or at its own end time, whichever is earlier; a noteoff for S stamped with
\* R's start time is among the notifications of that poll; S leaves the
\* sounding stage; and R enters it with a noteon and keeps its end time if R
\* is audible, and otherwise gets no noteon and nothing is left sounding at
\* that frequency.
C2_EarlierGivesWay ==
  \A e \in Conflicts :
    e.oldEarlier =>
      /\ e.oldAfter.time = e.oldBefore.time
      /\ EndTime(e.oldAfter) = Min2(EndTime(e.oldBefore), e.newBefore.time)
      /\ Item(e.newBefore.time, 0, "noteoff", e.old) \in Range(e.pushed)
      /\ Range(e.pushed) \subseteq Range(stack[1].todo)
      /\ e.sounding # e.old
      /\ e.newAfter = e.newBefore
      /\ IF Audible(e.newBefore)
         THEN /\ e.sounding = e.new
              /\ Item(e.newBefore.time, 2, "noteon", e.new) \in Range(e.pushed)
         ELSE /\ e.sounding = 0
              /\ \A it \in Range(e.pushed) : it.id # e.new

\* The example of the specification: S was to end after R's start, and R is
\* audible.
C2_Witness ==
  \E e \in Conflicts :
    /\ e.oldEarlier
    /\ EndTime(e.oldBefore) > e.newBefore.time
    /\ Audible(e.newBefore)
    /\ e.sounding = e.new

\* C3: when a record R reaches its start time while a record S of the same
\* frequency is sounding and R is the loser of the conflict rule, R is
\* truncated to duration zero, no noteon or noteoff is issued for R, and S
\* stays in the sounding stage unchanged, whatever the start times and
\* durations are.
C3_LoserSilenced ==
  \A e \in Conflicts :
    ~e.oldEarlier =>
      /\ e.newAfter.duration = 0
      /\ e.pushed = <<>>
      /\ hist.onIss[e.new] = 0 /\ hist.offIss[e.new] = 0
      /\ e.oldAfter = e.oldBefore
      /\ e.sounding = e.old

\* C4: once a call of silence() has returned, a noteoff has been delivered
\* exactly once for every record that was sounding when the call began and
\* every one-shot callback that was pending then has been invoked exactly
\* once, and that stays so whatever polls and calls of silence() follow.
C4_FlushedOnce ==
  /\ \A r \in hist.flushedRecs : hist.offCnt[r] = 1
  /\ \A c \in hist.flushedCbs : hist.cbCnt[c] = 1

\* A poll runs after a silence() that flushed a sounding record and a
\* pending callback.
C4_Witness ==
  /\ hist.flushedRecs # {}
  /\ hist.flushedCbs # {}
  /\ last.op = "poll"

\* C5 (as the specification states it): immediately after silence() returns
\* the queue, the start set, the sounding set and the callback set of the
\* instrument are empty, whatever handlers and callbacks did inside the call.
C5_EmptyOnReturn ==
  last.ret.valid =>
    /\ InSets(last.ret.inst) = {}
    /\ inst[last.ret.inst].callbackSet = <<>>

\* C5 (amended): immediately after silence() returns, the queue and the sets
\* of the instrument hold no record and no callback that existed when the
\* call began: whatever they hold was requested by a handler or callback
\* that ran inside the call.
C5_NothingOldOnReturn ==
  last.ret.valid =>
    /\ \A r \in InSets(last.ret.inst) : r > last.ret.preRecs
    /\ \A c \in Range(inst[last.ret.inst].callbackSet) : c > last.ret.preCbs

\* A silence() that flushed a callback returns, and the callback has
\* requested a tone while it ran.
C5_Witness ==
  /\ last.ret.valid
  /\ last.ret.fcb # {}
  /\ InSets(last.ret.inst) # {}

\* C6: a record that is in the queue or in the start set when silence() is
\* called is discarded: it is in no queue or set afterwards, and no noteon
\* and no noteoff is ever issued or delivered for it.
C6_DiscardedSilent ==
  \A r \in hist.discarded :
    /\ hist.onIss[r] = 0 /\ hist.offIss[r] = 0
    /\ hist.onCnt[r] = 0 /\ hist.offCnt[r] = 0
    /\ r \notin InSets(rec[r].inst)

\* A poll runs after silence() has discarded a record.
C6_Witness ==
  /\ hist.discarded # {}
  /\ last.op = "poll"
  /\ ~last.ret.valid

\* C7: once a call of silence() has returned, no noteon and no noteoff is
\* delivered for a tone requested before that call and no one-shot callback
\* registered before it is invoked, also when the call was made by a handler
\* or callback that a poll was delivering to.
C7_NothingAfterReturn ==
  /\ hist.lateRecs = {}
  /\ hist.lateCbs = {}

\* A step of silence() on instrument i: the call itself, or one of the
\* notifications it makes before it returns.
SilenceStep(i) ==
  \/ last'.op = "silence" /\ last'.inst = i
  \/ /\ stack # <<>>
     /\ stack[Len(stack)].kind = "silence"
     /\ stack[Len(stack)].inst = i
     /\ ~stack[Len(stack)].running

Untouched(j) ==
  /\ inst'[j] = inst[j]
  /\ \A r \in DOMAIN rec :
       rec[r].inst = j =>
         /\ rec'[r] = rec[r]
         /\ hist'.onCnt[r] = hist.onCnt[r]
         /\ hist'.offCnt[r] = hist.offCnt[r]
  /\ \A c \in DOMAIN cbs :
       cbs[c].inst = j => cbs'[c] = cbs[c] /\ hist'.cbCnt[c] = hist.cbCnt[c]

\* C8: silence() on one instrument leaves every other instrument as it was:
\* its queue, its sets, its handlers, its volume, its records and callbacks,
\* and nothing is delivered to it.
C8_OthersUntouched ==
  [][\A i, j \in Insts : (i # j /\ SilenceStep(i)) => Untouched(j)]_vars

\* silence() has just flushed a sounding record of one instrument while
\* another instrument has a sounding record and a pending callback.
C8_Witness ==
  \E i, j \in Insts :
    /\ i # j
    /\ last.op = "silence" /\ last.inst = i
    /\ stack # <<>> /\ stack[Len(stack)].fin # {}
    /\ inst[j].finishSet # NoFinish
    /\ inst[j].callbackSet # <<>>

\* C9: without an audio backend each scheduling call (tone, play, schedule)
\* returns normally, creates no tone record, arms no timer, and the
\* completion callback given to it is invoked.
C9_SchedulingIsNoOp ==
  last.op \in {"tone", "play", "schedule"} =>
    /\ ~last.err
    /\ rec = <<>>
    /\ inst[last.inst].pollTimer = Null
    /\ last.arg # 0 => hist.cbCnt[last.arg] > 0

\* C10: without an audio backend every public operation completes without
\* raising an error and leaves the instrument inert: no record, no timer,
\* nothing queued, volume zero.
C10_InertWithoutAudio ==
  /\ ~last.err
  /\ rec = <<>>
  /\ \A i \in Insts :
       /\ inst[i].pollTimer = Null
       /\ InSets(i) = {}
       /\ inst[i].callbackSet = <<>>
       /\ getVolume(World, i) = 0

\* The place of a kind of notification among those of equal timestamp.
KindRank(kind) ==
  IF kind = "noteoff" THEN 0 ELSE IF kind = "cb" THEN 1 ELSE 2

\* The loops of _doPoll that are delivering notifications.
PollFrames == {n \in 1..Len(stack) : stack[n].kind = "poll"}

\* C11: the notifications that a poll has collected are delivered in
\* nondecreasing order of timestamp, and among equal timestamps every
\* noteoff comes before every one-shot callback and every one-shot callback
\* before every noteon.
C11_DeliveryOrder ==
  \A n \in PollFrames :
    \A k, l \in 1..Len(stack[n].todo) :
      k < l =>
        LET a == stack[n].todo[k]
            b == stack[n].todo[l]
        IN /\ a.t <= b.t
           /\ a.t = b.t => KindRank(a.kind) <= KindRank(b.kind)

\* A poll has collected a one-shot callback and then, for a conflict, a
\* noteoff of the same timestamp, which the sort has to move to the front.
C11_Witness ==
  /\ last.op = "poll"
  /\ stack # <<>>
  /\ \E e \in Conflicts :
       /\ e.oldEarlier
       /\ \E k \in 1..Len(stack[1].todo) :
            /\ stack[1].todo[k].kind = "cb"
            /\ stack[1].todo[k].t = e.newBefore.time

\* C12 (as the specification states it): the handlers that receive the
\* notifications of one poll are those registered when the poll began to
\* deliver: a handler added during the delivery receives none of the
\* remaining notifications, a handler removed during it receives them all.
C12_PollSnapshot ==
  (last.trig.valid /\ last.trig.poll) => last.trig.got = last.trig.snap

\* C12 (amended): the handlers that receive one notification are those
\* registered for its event when _trigger began to deliver that
\* notification, each once and in the order of registration, whatever the
\* handlers add or remove while they run.
C12_TriggerSnapshot ==
  last.trig.valid => last.trig.got = last.trig.cb

\* A notification of a poll has been delivered to two handlers although the
\* first of them removed the second while it ran.
C12_Witness ==
  /\ last.trig.valid
  /\ last.trig.poll
  /\ Len(last.trig.got) = 2
  /\ Len(inst[last.inst].handlers[last.trig.event]) < 2

\* A step in which a script calls tone(), schedule() or play() on i, and a
\* step in which the poll timer of i fires.
SchedulingStep(i) ==
  last'.op \in {"tone", "schedule", "play"} /\ last'.inst = i /\ ~last'.err

PollStep(i) == last'.op = "poll" /\ last'.inst = i

\* The times of the records and callbacks that the step creates.
NewTimes ==
  {rec'[r].time : r \in (Len(rec) + 1)..Len(rec')}
  \cup {cbs'[c].time : c \in (Len(cbs) + 1)..Len(cbs')}

\* The delays that tone(), schedule() and play() add to now.
Offsets == Delays \cup {k * beatsecs(defaultTempo) : k \in 0..4}

\* C13: the scheduling calls made on an instrument between two polls take
\* their times from one cached now value (time = now + delay); only a poll
\* clears the cache, every poll does, and the first scheduling call after a
\* poll caches the start time read then from the audio clock.
C13_NowCache ==
  [][\A i \in Insts :
       /\ SchedulingStep(i) =>
            /\ inst[i].now # Null => inst'[i].now = inst[i].now
            /\ inst[i].now = Null =>
                 /\ inst'[i].now = currentStart'
                 /\ currentStart = Null =>
                      inst'[i].now = Max2(minStartTime, clock)
            /\ \A t \in NewTimes : t - inst'[i].now \in Offsets
       /\ PollStep(i) => inst'[i].now = Null
       /\ (inst[i].now # Null /\ inst'[i].now # inst[i].now) => PollStep(i)
    ]_vars

\* Two calls between two polls, the second made after the clock has moved
\* on and the shared start time has been cleared, have times from one now.
C13_Witness ==
  /\ last.op = "tone"
  /\ Len(rec) = 2
  /\ currentStart = Null
  /\ clock > inst[1].now
  /\ Len(inst[1].startSet) = 2
  /\ rec[2].time = inst[1].now

\* The records of i that the step creates.
NewRecs(i) == {r \in (Len(rec) + 1)..Len(rec') : rec'[r].inst = i}

\* C14: tone() submits a record at once exactly when it starts less than
\* bufferSecs after the cached now, and queues it otherwise; a poll takes
\* from the queue exactly the records that start at most bufferSecs after
\* its instant; a queued record has no backend nodes, and a record in
\* _startSet starts within bufferSecs of the time it was submitted at.
C14_Horizon ==
  /\ [](\A i \in Insts :
          /\ \A k \in 1..Len(inst[i].queue) :
               LET R == rec[inst[i].queue[k]]
               IN ~R.gainNode /\ R.cleanuptime = Infinity
          /\ \A k \in 1..Len(inst[i].startSet) :
               rec[inst[i].startSet[k]].time
                 <= Max2(minStartTime, clock + pollEpsilon) + bufferSecs)
  /\ [][\A i \in Insts :
          /\ SchedulingStep(i) =>
               \A r \in NewRecs(i) :
                 IF rec'[r].time < inst'[i].now + bufferSecs
                 THEN /\ r \in Range(inst'[i].startSet)
                      /\ r \notin Range(inst'[i].queue)
                 ELSE /\ r \in Range(inst'[i].queue)
                      /\ r \notin Range(inst'[i].startSet)
          /\ PollStep(i) =>
               \A r \in Range(inst[i].queue) \ hist'.discarded :
                 r \in Range(inst'[i].queue)
                   <=> rec[r].time - (clock + pollEpsilon) > bufferSecs
       ]_vars

\* A poll has taken a record from the queue into _startSet.
C14_Witness ==
  /\ last.op = "poll"
  /\ \E k \in 1..Len(inst[1].startSet) :
       /\ rec[inst[1].startSet[k]].time >= minStartTime + bufferSecs
       /\ rec[inst[1].startSet[k]].gainNode

\* The places that hold record r: positions of _queue, _startSet and
\* _cleanupSet, and keys of _finishSet, of any instrument.
Places(r) ==
  UNION {{<<i, "queue", k>> : k \in {n \in 1..Len(inst[i].queue) :
                                        inst[i].queue[n] = r}}
         \cup {<<i, "start", k>> : k \in {n \in 1..Len(inst[i].startSet) :
                                            inst[i].startSet[n] = r}}
         \cup {<<i, "finish", f>> : f \in {g \in Freqs :
                                            inst[i].finishSet[g] = r}}
         \cup {<<i, "cleanup", k>> : k \in {n \in 1..Len(inst[i].cleanupSet) :
                                              inst[i].cleanupSet[n] = r}}
         : i \in Insts}

\* The stage of record r: 1 in a queue, 2 in a _startSet, 3 in a _finishSet,
\* 4 in a _cleanupSet, 5 in none of them.
StageOf(r, I) ==
  IF \E i \in Insts : r \in Range(I[i].queue) THEN 1
  ELSE IF \E i \in Insts : r \in Range(I[i].startSet) THEN 2
  ELSE IF \E i \in Insts : r \in Range(I[i].finishSet) THEN 3
  ELSE IF \E i \in Insts : r \in Range(I[i].cleanupSet) THEN 4
  ELSE 5

\* C15: a record is in at most one of _queue, _startSet, _finishSet and
\* _cleanupSet, once; its stage never decreases; it starts in the queue or in
\* _startSet; it enters _finishSet from _startSet (within one poll, from the
\* queue through _startSet), having been given its nodes by _makeSound; it
\* enters _cleanupSet from _finishSet.
C15_StagesForward ==
  /\ [](\A r \in DOMAIN rec :
          /\ Cardinality(Places(r)) <= 1
          /\ StageOf(r, inst) = 3 =>
               rec[r].gainNode /\ rec[r].cleanuptime # Infinity)
  /\ [][\A r \in DOMAIN rec' :
          IF r \in DOMAIN rec
          THEN /\ StageOf(r, inst') >= StageOf(r, inst)
               /\ (StageOf(r, inst') = 3 /\ StageOf(r, inst) # 3) =>
                    \/ StageOf(r, inst) = 2
                    \/ StageOf(r, inst) = 1 /\ PollStep(rec[r].inst)
               /\ (StageOf(r, inst') = 4 /\ StageOf(r, inst) # 4) =>
                    StageOf(r, inst) = 3
          ELSE StageOf(r, inst') \in {1, 2}
       ]_vars

\* A record has gone from _startSet through _finishSet into _cleanupSet, and
\* the next one is in _finishSet.
C15_Witness ==
  /\ Len(rec) = 2
  /\ StageOf(1, inst) = 4
  /\ hist.offCnt[1] = 1
  /\ StageOf(2, inst) = 3

\* C16: a record that has backend nodes is on its way to cleanup: it is in
\* _startSet, _finishSet or _cleanupSet, from where the polls hand it on
\* until the cleanup loop releases its nodes; it never leaves these sets,
\* whether by a conflict or by silence(), with its nodes still connected.
C16_NodesReleased ==
  \A r \in DOMAIN rec :
    rec[r].gainNode => StageOf(r, inst) \in 2..4

\* C17: _truncateSound(record, t) never lengthens the record: the duration
\* afterwards is at most the duration before and at least 0, the start time
\* is unchanged, and when t is not before the end of the record nothing of
\* the record changes.
C17_TruncateShortens ==
  [][last'.op = "truncate" =>
       LET R == rec[last'.inst]
           R2 == rec'[last'.inst]
           t == last'.arg
       IN /\ R2.duration <= R.duration
          /\ R2.duration >= 0
          /\ R2.time = R.time
          /\ t >= R.time + R.duration => R2 = R
    ]_vars

\* A record with nodes has been cut to a shorter, positive duration.
C17_Witness ==
  /\ last.op = "truncate"
  /\ rec[last.inst].gainNode
  /\ rec[last.inst].duration > 0
  /\ last.arg = EndTime(rec[last.inst])
  /\ rec[last.inst].cleanuptime
       = last.arg + timeOffset + rec[last.inst].release + cleanupDelay

\* A record of _startSet that is inaudible (duration or velocity zero) gets
\* no noteon and no noteoff and does not enter _finishSet, whatever happens
\* in the step.
InaudibleStaysSilent ==
  \A i \in Insts : \A r \in Range(inst[i].startSet) :
    ~Audible(rec[r]) =>
      /\ hist'.onIss[r] = 0
      /\ hist'.offIss[r] = 0
      /\ r \notin Range(inst'[i].finishSet)

BeatsBefore(stems, k) == songTime(SubSeq(stems, 1, k - 1))

RECURSIVE NoteRequests(_, _, _)
NoteRequests(stems, k, j) ==
  IF j > Len(stems[k].notes) THEN <<>>
  ELSE (IF stems[k].notes[j].holdover THEN <<>>
        ELSE <<[pitch |-> stems[k].notes[j].pitch,
                beats |-> BeatsBefore(stems, k)]>>)
       \o NoteRequests(stems, k, j + 1)

RECURSIVE Requests(_, _)
Requests(stems, k) ==
  IF k > Len(stems) THEN <<>>
  ELSE NoteRequests(stems, k, 1) \o Requests(stems, k + 1)

\* C19: play() makes one tone request for each note that is not a holdover,
\* in stem order, at the frequency of the note, with a delay of the beats of
\* the stems before its stem times the beat length 60 / tempo; it makes none
\* for a holdover.
C19_PlayRequests ==
  (last.op = "play" /\ ~last.err) =>
    LET E == Requests(parseABCFile(<<NoteLine(last.arg)>>)[""], 1)
    IN /\ Len(rec) = Len(E)
       /\ \A n \in 1..Len(E) :
            /\ rec[n].frequency = pitchToFrequency(E[n].pitch)
            /\ rec[n].time = inst[last.inst].now
                 + RatTicks(E[n].beats, (60 * TicksPerSec) \div defaultTempo)

\* The tune CDEF at tempo 120: four requests at 0, 0.5, 1 and 1.5 seconds
\* for C, D, E and F.
C19_Witness ==
  /\ last.op = "play"
  /\ last.arg = <<"C", "D", "E", "F">>
  /\ Len(rec) = 4
  /\ \A n \in 1..4 :
       /\ rec[n].frequency = n
       /\ rec[n].time = inst[1].now + (n - 1) * (TicksPerSec \div 2)

\* The stems of the tune just played, as parseABCNotes leaves them and as
\* processTies leaves them.
RawStems == parseLines(<<NoteLine(last.arg)>>, 1, NewParse).voice[""].stems
TiedStems == processTies(RawStems)

\* The places in stem m of the notes of pitch P, and the one note there.
NotesOf(stems, m, P) ==
  {k \in 1..Len(stems[m].notes) : stems[m].notes[k].pitch = P}

NoteOf(stems, m, P) == stems[m].notes[CHOOSE k \in NotesOf(stems, m, P) : TRUE]

\* Stems a..b of the stems raw are a run on pitch P: each has one note of
\* pitch P, every one of these but the last is tied, the last is not tied
\* or no stem restates the pitch after it, and the pitch is not tied into
\* stem a.
TieRunOf(raw, P, a, b) ==
  /\ \A m \in a..b : Cardinality(NotesOf(raw, m, P)) = 1
  /\ \A m \in a..(b - 1) : NoteOf(raw, m, P).tie
  /\ NoteOf(raw, b, P).tie =>
       \A m \in {b + 1} \cap DOMAIN raw : NotesOf(raw, m, P) = {}
  /\ a > 1 => \A k \in NotesOf(raw, a - 1, P) : ~raw[a - 1].notes[k].tie

TieRun(P, a, b) == TieRunOf(RawStems, P, a, b)

RECURSIVE RunTime(_, _, _, _)
RunTime(raw, P, a, b) ==
  IF a > b THEN Zero
  ELSE RatAdd(NoteOf(raw, a, P).time, RunTime(raw, P, a + 1, b))

\* The tones that play() has requested at pitch P within stems a..b of the
\* stems tied.
RunTones(tied, P, a, b) ==
  {n \in DOMAIN rec :
     /\ rec[n].frequency = pitchToFrequency(P)
     /\ rec[n].time >= inst[last.inst].now
          + RatTicks(BeatsBefore(tied, a),
                     (60 * TicksPerSec) \div defaultTempo)
     /\ rec[n].time < inst[last.inst].now
          + RatTicks(BeatsBefore(tied, b + 1),
                     (60 * TicksPerSec) \div defaultTempo)}

\* C20: for a run of consecutive stems that restate a pitch, every note of
\* it but the last tied, processTies gives the first note the sum of the
\* times of the notes of the run and marks every later note a holdover, and
\* play() requests one tone for the run, which lasts for that sum of beats
\* less the gap of 1/32 second that separates notes.
C20_TiesAccumulate ==
  (last.op = "play" /\ ~last.err) =>
    \A raw \in {RawStems} : \A tied \in {processTies(raw)} :
    \A a, b \in 1..Len(raw) :
    \A P \in {p \in PitchTokens : NotesOf(raw, a, p) # {}} :
      (a <= b /\ TieRunOf(raw, P, a, b)) =>
        /\ NoteOf(tied, a, P).time = RunTime(raw, P, a, b)
        /\ ~NoteOf(tied, a, P).holdover
        /\ \A m \in (a + 1)..b : NoteOf(tied, m, P).holdover
        /\ Cardinality(RunTones(tied, P, a, b)) = 1
        /\ \A n \in RunTones(tied, P, a, b) :
             rec[n].duration
               = RatTicks(RunTime(raw, P, a, b),
                          (60 * TicksPerSec) \div defaultTempo) - slurGap

\* The tune C2-C2: one tone of four beats.
C20_Witness ==
  /\ last.op = "play"
  /\ last.arg = <<"C", "2", "-", "C", "2">>
  /\ TieRun("C", 1, 2)
  /\ Len(rec) = 1
  /\ rec[1].duration = 4 * (TicksPerSec \div 2) - slurGap

\* C21: ties bind adjacent stems only and change nothing but times and
\* holdover marks: a note is a holdover exactly when the stem just before
\* has a tied note of its pitch; a note whose pitch the next stem does not
\* restate keeps its time; processTies leaves the number of stems, the time
\* of every stem, and the pitch and tie mark of every note as they were.
C21_TiesAdjacentOnly ==
  (last.op = "play" /\ ~last.err) =>
    \A raw \in {RawStems} : \A tied \in {processTies(raw)} :
    /\ Len(tied) = Len(raw)
    /\ \A m \in DOMAIN raw :
         /\ tied[m].time = raw[m].time
         /\ Len(tied[m].notes) = Len(raw[m].notes)
         /\ \A k \in DOMAIN raw[m].notes :
              LET N == raw[m].notes[k]
                  T == tied[m].notes[k]
              IN /\ T.pitch = N.pitch
                 /\ T.tie = N.tie
                 /\ T.holdover <=>
                      /\ m > 1
                      /\ \E j \in NotesOf(raw, m - 1, N.pitch) :
                           raw[m - 1].notes[j].tie
                 /\ (m = Len(raw) \/ NotesOf(raw, m + 1, N.pitch) = {})
                      => T.time = N.time

\* The tune C- z C: the rest closes the tie, and two tones of one beat are
\* requested.
C21_Witness ==
  /\ last.op = "play"
  /\ last.arg = <<"C", "-", "z", "C">>
  /\ Len(rec) = 2
  /\ \A n \in 1..2 : rec[n].duration = (TicksPerSec \div 2) - slurGap

\* The file that has been parsed, and what the text of a file says apart
\* from parseABCFile.  The body of a file starts after its K: line, or with
\* its first line of notes.  The voice of a line is the voice that the last
\* V: line of the body before it names, and else the voice that the first
\* V: line of the header names, and else the voice without a name.
BodyStart(f) ==
  CHOOSE j \in 1..(Len(f) + 1) :
    /\ j <= Len(f) => f[j].field \in {"K", ""}
    /\ \A i \in 1..(j - 1) : f[i].field \notin {"K", ""}

FirstVoice(f) ==
  LET heads == {i \in 1..(BodyStart(f) - 1) : f[i].field = "V"}
  IN IF heads = {} THEN ""
     ELSE f[CHOOSE i \in heads : \A h \in heads : i <= h].id

VoiceAt(f, j) ==
  LET turns == {i \in (BodyStart(f) + 1)..(j - 1) :
                  f[i].field = "V" /\ f[i].id # ""}
  IN IF turns = {} THEN FirstVoice(f)
     ELSE f[CHOOSE i \in turns : \A h \in turns : i >= h].id

\* The tokens of the lines of notes of voice id from line j on, in order.
RECURSIVE VoiceText(_, _, _)
VoiceText(f, id, j) ==
  IF j > Len(f) THEN <<>>
  ELSE (IF f[j].field = "" /\ VoiceAt(f, j) = id THEN f[j].tokens ELSE <<>>)
       \o VoiceText(f, id, j + 1)

\* The key of a file with one K: line at most.
FileKey(f) ==
  IF \E j \in DOMAIN f : f[j].field = "K"
  THEN keysig(f[CHOOSE j \in DOMAIN f : f[j].field = "K"].key)
  ELSE NoKey

\* The places of the pitches in the tokens T, in order.
PitchPlaces(T) ==
  LET RECURSIVE from(_)
      from(k) == IF k > Len(T) THEN <<>>
                 ELSE (IF T[k] \in PitchTokens THEN <<k>> ELSE <<>>)
                      \o from(k + 1)
  IN from(1)

\* The accidental in force for the pitch at place k of the tokens T of a
\* voice: the one written on it; else the one written last on its letter,
\* in any octave, since the last bar line; else that of the key.
LetterOf(token) == toUpperCase(pitchMatch(token)[2])
WrittenBefore(T, k) ==
  {j \in 1..(k - 1) :
     /\ T[j] \in PitchTokens
     /\ LetterOf(T[j]) = LetterOf(T[k])
     /\ pitchMatch(T[j])[1] # ""
     /\ \A b \in j..k : T[b] # "|"}
InForce(T, k, key) ==
  IF pitchMatch(T[k])[1] # "" THEN pitchMatch(T[k])[1]
  ELSE IF WrittenBefore(T, k) # {}
  THEN pitchMatch(T[CHOOSE j \in WrittenBefore(T, k) :
                      \A h \in WrittenBefore(T, k) : j >= h])[1]
  ELSE IF key[LetterOf(T[k])] # "none" THEN key[LetterOf(T[k])]
  ELSE ""
ExpectedPitch(T, k, key) ==
  IF InForce(T, k, key) = "=" THEN pitchMatch(T[k])[2]
  ELSE Concat(InForce(T, k, key), pitchMatch(T[k])[2])

\* A file whose lines of notes have pitches and bar lines only.
PlainNotes(f) ==
  \A j \in DOMAIN f : \A t \in DOMAIN f[j].tokens :
    f[j].tokens[t] \in PitchTokens \cup {"|"}

\* C22: in a file of pitches and bar lines, with or without a K: line, every
\* pitch of a voice comes out as one stem of the voice with one note, whose
\* pitch has the accidental written on it, else the accidental written last
\* on its letter (in any octave) in the same measure of the voice, else the
\* accidental of the key, else none (where parseABCFile returns a result).
C22_AccidentalsResolve ==
  (last.op = "parse" /\ PlainNotes(last.arg) /\ ~last.ret.raised) =>
    \A id \in VoiceIds : \A T \in {VoiceText(last.arg, id, 1)} :
    \A places \in {PitchPlaces(T)} : \A stems \in {last.ret.voice[id].stems} :
      /\ Len(stems) = Len(places)
      /\ \A n \in DOMAIN places :
           /\ Len(stems[n].notes) = 1
           /\ stems[n].notes[1].pitch
                = ExpectedPitch(T, places[n], FileKey(last.arg))

\* The same for the files that start with a header line.
C22_AfterHeader ==
  (last.op = "parse" /\ last.arg[1].field = "") \/ C22_AccidentalsResolve

\* K:C and the lines ^C C and | C: C sharp, C sharp, and C after the bar
\* line.
C22_Witness ==
  /\ last.op = "parse"
  /\ last.arg = <<KeyLine(<<"C">>), NoteLine(<<"^C", "C">>),
                  NoteLine(<<"|", "C">>)>>
  /\ Len(last.ret.voice[""].stems) = 3
  /\ last.ret.voice[""].stems[1].notes[1].pitch = "^C"
  /\ last.ret.voice[""].stems[2].notes[1].pitch = "^C"
  /\ last.ret.voice[""].stems[3].notes[1].pitch = "C"

\* What music says of a key: the place of its root in the circle of fifths,
\* the shift of its mode, and so the number of its sharps, which is less
\* than zero for flats.
Fifths(root) ==
  CASE root = <<"C">> -> 0 [] root = <<"G">> -> 1 [] root = <<"D">> -> 2
    [] root = <<"A">> -> 3 [] root = <<"E">> -> 4 [] root = <<"B">> -> 5
    [] root = <<"F", "#">> -> 6 [] root = <<"C", "#">> -> 7
    [] root = <<"G", "#">> -> 8 [] root = <<"D", "#">> -> 9
    [] root = <<"A", "#">> -> 10
    [] root = <<"F">> -> -1 [] root = <<"B", "b">> -> -2
    [] root = <<"E", "b">> -> -3 [] root = <<"A", "b">> -> -4
    [] root = <<"D", "b">> -> -5 [] root = <<"G", "b">> -> -6
    [] root = <<"C", "b">> -> -7
ModeShift(mode) ==
  CASE mode \in {<<>>, <<"m", "a", "j">>, <<" ", "m", "a", "j", "o", "r">>}
         -> 0
    [] mode \in {<<"m">>, <<"m", "i", "n">>, <<" ", "m", "i", "n", "o", "r">>}
         -> -3
    [] mode = <<"m", "i", "x">> -> -1
    [] mode = <<" ", "d", "o", "r", "i", "a", "n">> -> -2
    [] mode = <<"p", "h", "r">> -> -4
    [] mode = <<"l", "y", "d">> -> 1
    [] mode = <<"l", "o", "c">> -> -5
SharpOrder == <<"F", "C", "G", "D", "A", "E", "B">>
FlatOrder == <<"B", "E", "A", "D", "G", "C", "F">>
Signature(n) ==
  [l \in Letters |->
     IF \E j \in 1..n : SharpOrder[j] = l THEN "^"
     ELSE IF \E j \in 1..(-n) : FlatOrder[j] = l THEN "_"
     ELSE "none"]
\* The accidental after the name of a key: its letter and its mark.
ExtraLetter(x) == upperChar(x[Len(x)])
ExtraMark(x) == IF x[Len(x) - 1] = "=" THEN "none" ELSE x[Len(x) - 1]

\* C23: the key named by a root and a mode that has n sharps, n from 0 to 7,
\* gives a sharp to the first n letters of F C G D A E B and to no other
\* letter, and the key that has n flats gives a flat to the first n letters
\* of B E A D G C F and to no other; an accidental written after the name
\* sets the entry of its letter (a natural sign removes it) and leaves the
\* entry of every other letter.
C23_KeySignature ==
  last.op = "keysig" =>
    \A r \in KeyRoots : \A m \in KeyModes : \A x \in KeyExtras :
      (last.arg = r \o m \o x
         /\ Fifths(r) + ModeShift(m) \in -7..7) =>
        \A l \in Letters :
          last.ret[l] = IF x # <<>> /\ l = ExtraLetter(x) THEN ExtraMark(x)
                        ELSE Signature(Fifths(r) + ModeShift(m))[l]

\* K:Fm gives a flat to B, E, A and D only; K:G with =f gives no accidental.
C23_Witness ==
  /\ last.op = "keysig"
  /\ \/ /\ last.arg = <<"F", "m">>
        /\ \A l \in Letters : last.ret[l] = "_" <=> l \in {"B", "E", "A", "D"}
        /\ \A l \in Letters : last.ret[l] \in {"_", "none"}
     \/ /\ last.arg = <<"G", "=", "f">>
        /\ \A l \in Letters : last.ret[l] = "none"

\* What is written in a duration: the number of its slashes when it has
\* nothing else, its numerator (1 when none is written) and its denominator
\* (when none is written, 2 after a slash and 1 without).
SlashRun(duration) == durationMatch(duration).m3
Numerator(duration) ==
  IF durationMatch(duration).m1 = <<>> THEN 1
  ELSE parseFloat(durationMatch(duration).m1)
Denominator(duration) ==
  IF durationMatch(duration).m2 # <<>>
  THEN parseFloat(durationMatch(duration).m2)
  ELSE IF durationMatch(duration).slash THEN 2 ELSE 1
\* A numerator of several digits before a written denominator that is less
\* than it is taken as whole beats followed by a numerator.
Mixed(duration) ==
  /\ durationMatch(duration).m2 # <<>>
  /\ Len(durationMatch(duration).m1) > 1
  /\ Numerator(duration) > Denominator(duration)
\* The digits of the numerator split after the k-th: whole beats and the rest.
Whole(duration, k) == parseFloat(SubSeq(durationMatch(duration).m1, 1, k))
Rest(duration, k) ==
  parseFloat(SubSeq(durationMatch(duration).m1, k + 1,
                    Len(durationMatch(duration).m1)))
\* The split that is taken: the first whose rest is not more than the
\* denominator, and the last one when there is none.
SplitAt(duration, k) ==
  /\ k \in 1..(Len(durationMatch(duration).m1) - 1)
  /\ \A j \in 1..(k - 1) : Rest(duration, j) > Denominator(duration)
  /\ \/ Rest(duration, k) <= Denominator(duration)
     \/ k = Len(durationMatch(duration).m1) - 1

\* C24 as stated: a run of k slashes gives 0.5^k, and every other duration
\* gives its numerator divided by its denominator.
C24_PlainFraction ==
  last.op = "durationToTime" =>
    last.ret = IF SlashRun(last.arg) > 0 THEN HalfPow(SlashRun(last.arg))
               ELSE Rat(Numerator(last.arg), Denominator(last.arg))

\* C24: a run of k slashes gives 0.5^k; a numerator of several digits that
\* is more than the written denominator gives the whole beats of its
\* leading digits plus the rest divided by the denominator; every other
\* duration gives its numerator divided by its denominator.
C24_DurationToTime ==
  last.op = "durationToTime" =>
    IF SlashRun(last.arg) > 0 THEN last.ret = HalfPow(SlashRun(last.arg))
    ELSE IF Mixed(last.arg)
    THEN \E k \in 1..MaxTokens :
           /\ SplitAt(last.arg, k)
           /\ last.ret = RatAdd(Rat(Whole(last.arg, k), 1),
                                Rat(Rest(last.arg, k),
                                    Denominator(last.arg)))
    ELSE last.ret = Rat(Numerator(last.arg), Denominator(last.arg))

\* "11/2" gives one beat and a half.
C24_Witness ==
  /\ last.op = "durationToTime"
  /\ last.arg = "11/2"
  /\ last.ret = Rat(3, 2)

\* The durations that the claim lists.
C24_Listed ==
  last.op = "durationToTime" =>
    /\ last.arg = "1" => last.ret = Rat(1, 1)
    /\ last.arg = "/2" => last.ret = Rat(1, 2)
    /\ last.arg = "3/2" => last.ret = Rat(3, 2)
    /\ last.arg = "//" => last.ret = Rat(1, 4)
    /\ last.arg = "4" => last.ret = Rat(4, 1)
    /\ last.arg = "112/4" => last.ret = Rat(23, 2)
    /\ last.arg = "12/8" => last.ret = Rat(5, 4)
    /\ last.arg = "12/" => last.ret = Rat(6, 1)

\* What is written on a note of a chord: its own duration, "" for none, and
\* its own tie.
OwnDuration(n) == IF Len(n) > 1 /\ n[2] # "-" THEN n[2] ELSE ""
OwnTie(n) == n[Len(n)] = "-"
\* The notes of the one stem of a file of one chord.
ChordOf(w) == w.voice[""].stems[1].notes

\* C25 as stated: the duration after the closing bracket is the duration of
\* every note of the chord that has none of its own, a note with a duration
\* of its own keeps it, and a tie after the closing bracket ties every note.
C25_ChordKeepsOwn ==
  last.op = "parse" =>
    \A a \in ChordNotes("C") : \A b \in ChordNotes("E") :
    \A d \in AfterDurations : \A t \in TieMarks :
      last.arg = <<NoteLine(ChordText(a, b, d, t))>> =>
        /\ Len(last.ret.voice[""].stems) = 1
        /\ Len(ChordOf(last.ret)) = 2
        /\ \A k \in 1..2 : \A n \in {<<a, b>>[k]} :
             /\ ChordOf(last.ret)[k].time
                  = IF OwnDuration(n) # "" THEN durationToTime(OwnDuration(n))
                    ELSE IF d # <<>> THEN durationToTime(d[1])
                    ELSE One
             /\ t # <<>> => ChordOf(last.ret)[k].tie

\* C25: the duration after the closing bracket is the duration of every
\* note of the chord, also of a note that has a duration of its own; with
\* no duration after the bracket a note has its own duration, or one beat;
\* a tie after the closing bracket ties every note, and with none a note is
\* tied when it has a tie of its own.
C25_ChordDuration ==
  last.op = "parse" =>
    \A a \in ChordNotes("C") : \A b \in ChordNotes("E") :
    \A d \in AfterDurations : \A t \in TieMarks :
      last.arg = <<NoteLine(ChordText(a, b, d, t))>> =>
        /\ Len(last.ret.voice[""].stems) = 1
        /\ Len(ChordOf(last.ret)) = 2
        /\ \A k \in 1..2 : \A n \in {<<a, b>>[k]} :
             /\ ChordOf(last.ret)[k].time
                  = IF d # <<>> THEN durationToTime(d[1])
                    ELSE IF OwnDuration(n) # ""
                    THEN durationToTime(OwnDuration(n))
                    ELSE One
             /\ ChordOf(last.ret)[k].tie <=> (t # <<>> \/ OwnTie(n))

\* [C2E]3 is a chord of two notes of three beats, and [CE/2]- one of two
\* tied notes.
C25_Witness ==
  /\ last.op = "parse"
  /\ \/ /\ last.arg = <<NoteLine(<<"[", "C", "2", "E", "]", "3">>)>>
        /\ ChordOf(last.ret)[1].time = Rat(3, 1)
        /\ ChordOf(last.ret)[2].time = Rat(3, 1)
     \/ /\ last.arg = <<NoteLine(<<"[", "C", "E", "/2", "]", "-">>)>>
        /\ ChordOf(last.ret)[1].tie
        /\ ChordOf(last.ret)[2].tie

\* The tokens that parseABCNotes hands to parseStem.
StemToken(token) ==
  token \notin {" ", "<", "<<", ">", ">>", "|"} \cup BeatletTokens
                 \cup DecorationTokens
\* One turn of the loop of parseABCNotes from P to Q: the index grows, and
\* by one where parseStem returns null.
StepAdvances(tokens, P, Q) ==
  \/ Q.raised
  \/ /\ Q.index > P.index
     /\ (/\ StemToken(tokens[P.index])
         /\ ~parseStem(tokens, P.index, P.key, currentAccent(P)).ok)
          => Q.index = P.index + 1
\* The same for all the turns of the loop, ...
RECURSIVE LoopAdvances(_, _)
AdvancesFrom(tokens, P, Q) ==
  StepAdvances(tokens, P, Q) /\ LoopAdvances(tokens, Q)
LoopAdvances(tokens, P) ==
  \/ P.raised
  \/ P.index > Len(tokens)
  \/ AdvancesFrom(tokens, P, tokenStep(tokens, P))
\* ... and for all the lines of a file.
RECURSIVE FileAdvances(_, _, _)
FileAdvances(lines, j, P) ==
  \/ P.raised
  \/ j > Len(lines)
  \/ IF lines[j].field # ""
     THEN FileAdvances(lines, j + 1, handleInformation(P, lines[j]))
     ELSE /\ LoopAdvances(lines[j].tokens,
                          [P EXCEPT !.index = 1, !.dotted = 0,
                                    !.beatlet = NoBeatlet])
          /\ FileAdvances(lines, j + 1, parseABCNotes(lines[j].tokens, P))

\* C26: parseABCFile returns a result and throws no error, whatever the
\* file; every turn of the loop over the tokens of a line moves the index
\* forward, and by exactly one token where no stem begins.
C26_NeverRaises ==
  last.op = "parse" =>
    /\ ~last.ret.raised
    /\ FileAdvances(last.arg, 1, NewParse)

\* The part of C26 about the index of the loop.
C26_Advances ==
  last.op = "parse" => FileAdvances(last.arg, 1, NewParse)

\* [ C ~ is no chord: the bracket alone is passed over, C is a stem, and
\* the sign after it is passed over.
C26_Skips ==
  /\ last.op = "parse"
  /\ last.arg = <<NoteLine(<<"[", "C", "~">>)>>
  /\ ~last.ret.raised
  /\ Len(last.ret.voice[""].stems) = 1
  /\ last.ret.index = 4

\* What a tuplet marker (n:b:t) says: n, b (2 when not written) and t (n
\* when not written).
TupletN(m) == beatletMatch(m)[1]
TupletB(m) == IF beatletMatch(m)[2] = 0 THEN 2 ELSE beatletMatch(m)[2]
TupletT(m) == IF beatletMatch(m)[3] = 0 THEN TupletN(m) ELSE beatletMatch(m)[3]
\* The stems of a file of a note D, the marker m and four notes C have
\* these times: one beat for D, b/n for the first t of the C, and one beat
\* for the others.
TupletTimes(stems, m) ==
  /\ Len(stems) = 5
  /\ \A k \in 1..5 : \A expected \in
         {IF k > 1 /\ k - 1 <= TupletT(m) THEN Rat(TupletB(m), TupletN(m))
          ELSE One} :
       /\ stems[k].time = expected
       /\ Len(stems[k].notes) = 1
       /\ stems[k].notes[1].time = expected

\* C27: the marker (n:b:t) scales the next t stems of the voice and their
\* notes by b/n and no other stem, wherever the marker and the stems are
\* written: on one line, the marker right after a note, or stems on the
\* next line.
C27_TupletScales ==
  last.op = "parse" =>
    \A m \in BeatletTokens :
      last.arg \in {TupletLine(m), TupletClose(m), TupletBroken(m)} =>
        TupletTimes(last.ret.voice[""].stems, m)

\* The part of C27 for a marker after a blank and stems on its line.
C27_OneLine ==
  last.op = "parse" =>
    \A m \in BeatletTokens :
      last.arg = TupletLine(m) => TupletTimes(last.ret.voice[""].stems, m)

\* (3:2:4 before C on one line and C C C on the next: the three stems of
\* the second line have one beat each.
C27_LineEndsTuplet ==
  /\ last.op = "parse"
  /\ last.arg = TupletBroken("(3:2:4")
  /\ Len(last.ret.voice[""].stems) = 5
  /\ last.ret.voice[""].stems[2].time = Rat(2, 3)
  /\ \A k \in 3..5 : last.ret.voice[""].stems[k].time = One

\* D(3CCCC: the marker is taken for the duration of D, which has no time,
\* and no stem is scaled.
C27_MarkerAsDuration ==
  /\ last.op = "parse"
  /\ last.arg = TupletClose("(3")
  /\ Len(last.ret.voice[""].stems) = 5
  /\ IsNaN(last.ret.voice[""].stems[1].time)
  /\ \A k \in 2..5 : last.ret.voice[""].stems[k].time = One

\* The beats that are written on a stem: those of its duration, or one.
WrittenTime(d) == IF d = <<>> THEN One ELSE durationToTime(d[1])
\* The part 1 - 2^-L of a stem that a run of L marks moves.
MovedPart(mark) == RatSub(One, HalfPow(tokenLength(mark)))
\* The beats that a run of > takes from the stem after it, and those that a
\* run of < takes from the stem before it.
MovedBack(mark, dy) ==
  IF mark \in {">", ">>"} THEN RatMul(MovedPart(mark), WrittenTime(dy))
  ELSE Zero
MovedOn(mark, dx) ==
  IF mark \in {"<", "<<"} THEN RatMul(MovedPart(mark), WrittenTime(dx))
  ELSE Zero
\* The times of the four stems D, C, E and F.
SyncTimes(stems, dx, mark, dy) ==
  /\ Len(stems) = 4
  /\ stems[1].time = One
  /\ stems[2].time = RatSub(RatAdd(WrittenTime(dx), MovedBack(mark, dy)),
                            MovedOn(mark, dx))
  /\ stems[3].time = RatSub(RatAdd(WrittenTime(dy), MovedOn(mark, dx)),
                            MovedBack(mark, dy))
  /\ RatAdd(stems[2].time, stems[3].time)
       = RatAdd(WrittenTime(dx), WrittenTime(dy))
  /\ stems[4].time = One

Dynamics(token) == IF token = "!p!" THEN Rat(6, 10) ELSE Rat(8, 10)
\* The velocity in force at place k of the tokens T: that of the last
\* dynamics decoration before it, and none (zero) when there is none.
RECURSIVE VelocityAt(_, _)
VelocityAt(T, k) ==
  IF k = 1 THEN Zero
  ELSE IF T[k - 1] \in {"!p!", "!mp!"} THEN Dynamics(T[k - 1])
  ELSE VelocityAt(T, k - 1)
\* A file whose lines of notes have notes C and decorations only.
DynamicsOnly(f) ==
  \A j \in DOMAIN f : \A t \in DOMAIN f[j].tokens :
    f[j].tokens[t] \in DynamicsTokens
\* The notes of the voice have the velocities in force at their places.
VelocitiesOf(stems, T, places) ==
  /\ Len(stems) = Len(places)
  /\ \A n \in DOMAIN places :
       /\ Len(stems[n].notes) = 1
       /\ stems[n].notes[1].velocity = VelocityAt(T, places[n])

\* C29: in a file of notes and decorations, with or without a header line
\* before the notes, every note written after a dynamics decoration has the
\* velocity of the last dynamics decoration before it.
C29_DynamicsApply ==
  (last.op = "parse" /\ DynamicsOnly(last.arg)) =>
    \A T \in {VoiceText(last.arg, "", 1)} :
      VelocitiesOf(last.ret.voice[""].stems, T, PitchPlaces(T))

\* The same for the files that start with a K: line.
C29_AfterHeader ==
  (last.op = "parse" /\ last.arg[1].field = "") \/ C29_DynamicsApply

\* !p!CC with no header line: the first note has the velocity 0.6, and the
\* second has none.
C29_SecondNoteLoud ==
  /\ last.op = "parse"
  /\ last.arg = <<NoteLine(<<"!p!", "C", "C">>)>>
  /\ last.ret.voice[""].stems[1].notes[1].velocity = Rat(6, 10)
  /\ last.ret.voice[""].stems[2].notes[1].velocity = Zero

\* C30: tone() with a timbre of its own that has some of the fields of a
\* timbre throws no error and makes the record of a tone, whose timbre has
\* the fields given and the default values for the others.
C30_PartialTimbre ==
  [][\A given \in GivenTimbres :
       (last'.op = "toneTimbre" /\ last'.arg = given /\ inst[1].atop) =>
         /\ ~last'.err
         /\ Len(rec') = Len(rec) + 1
         /\ rec'[Len(rec')].release
              = IF "release" \in DOMAIN given THEN given.release
                ELSE defaultRelease]_vars

\* The same for a timbre that has all the fields.
C30_FullTimbre ==
  [][\A given \in GivenTimbres :
       (last'.op = "toneTimbre" /\ last'.arg = given /\ inst[1].atop
          /\ DOMAIN given = DOMAIN defaultTimbre) =>
         /\ ~last'.err
         /\ Len(rec') = Len(rec) + 1
         /\ rec'[Len(rec')].release = given.release]_vars

\* A tone with a timbre that has the field release alone throws an error
\* and makes no record.
C30_Throws ==
  /\ last.op = "toneTimbre"
  /\ DOMAIN last.arg = {"release"}
  /\ last.err
  /\ rec = <<>>

\* ------------------------------------------------------ the poll timer
\* A step in which the poll timer of i fires with window.interrupted set:
\* _doPoll calls silence() and returns.
InterruptedPoll(i) ==
  /\ PollStep(i)
  /\ \/ last'.ret.valid
     \/ stack' # <<>> /\ stack'[1].kind = "silence"

\* The deadlines outstanding for an instrument I, given the records R and
\* the callbacks C: the start times of _startSet, the end times of
\* _finishSet, the times of _callbackSet, the cleanup time plus the grace
\* period of every record of _cleanupSet, and the start times of _queue
\* less the dequeue lead.
Deadlines(I, R, C) ==
  {R[r].time : r \in Range(I.startSet)}
  \cup {EndTime(R[I.finishSet[f]]) : f \in {g \in Freqs : I.finishSet[g] # 0}}
  \cup {C[c].time : c \in Range(I.callbackSet)}
  \cup {R[r].cleanuptime + cleanupGrace : r \in Range(I.cleanupSet)}
  \cup {R[r].time - dequeueTime : r \in Range(I.queue)}

\* The time at which a timer set at time t for the deadline d fires at the
\* soonest: the delay is at least a millisecond and a whole number of
\* milliseconds.
WakeFor(t, d) == t + RoundMs(Max2(minPollDelay, d - t))

\* C31: a poll that is not interrupted leaves the timer armed for a time no
\* later than the least outstanding deadline of the instrument (to the
\* millisecond, and no sooner than a millisecond from now), the cleanup
\* deadlines being those of every record of the cleanup set.
C31_TimerCoversDeadlines ==
  [][\A i \in Insts :
       (PollStep(i) /\ ~InterruptedPoll(i)) =>
         \A ds \in {Deadlines(inst'[i], rec', cbs')} :
           ds # {} =>
             /\ inst'[i].pollTimer # Null
             /\ inst'[i].pollTimer <= WakeFor(clock, SetMin(ds, Infinity))]_vars

\* ------------------------------------------- timers that fire when due
\* The poll timer of instrument i fires and window.interrupted is not set.
PollUninterrupted(i) ==
  /\ Idle
  /\ inst[i].pollTimer # Null
  /\ clock >= inst[i].pollTimer
  /\ currentStart = Null \/ inst[i].now = Null
  /\ Store(doPoll(World, i, FALSE), "poll", i, 0)

\* The times at which the timers that are armed are due.
TimersDue == {inst[i].pollTimer : i \in {j \in Insts : inst[j].pollTimer # Null}}

\* Time passes on a page whose timers fire when they are due: the clock
\* moves to the time of the next timer, or by a second while the page is
\* being watched, and it does not move while a timer is due.
Elapse ==
  /\ Idle
  /\ currentStart = Null
  /\ \A t \in TimersDue : t > clock
  /\ \E ts \in {TimersDue \cup (IF clock < MaxClockSecs * TicksPerSec
                                THEN {clock + TicksPerSec} ELSE {})} :
       /\ ts # {}
       /\ Store([World EXCEPT !.clock = SetMin(ts, Infinity)], "advance", 0, 0)

\* Scripts that request tones at any time, at once or beyond the lookahead
\* horizon, which is bufferSecs.
PendingDelays ==
  {k * TicksPerSec : k \in {0} \cup MaxDelaySecs..(MaxDelaySecs + 1)}

TonePending(i) ==
  /\ Idle
  /\ inst[i].made
  /\ clock <= MaxClockSecs * TicksPerSec
  /\ Len(rec) < MaxRecs
  /\ \E f \in Freqs, dl \in PendingDelays :
       Store(tone(World, i, f, TicksPerSec, 1, dl), "tone", i, 0)

NextTimely ==
  \/ Construct(1)
  \/ TonePending(1)
  \/ PollUninterrupted(1)
  \/ ClearCurrentStart
  \/ Elapse
  \/ Deliver

SpecTimely == InitDuo /\ [][NextTimely]_vars

\* C32: with timers that fire when they are due and no silence(), a record
\* is in the pending queue only while a poll is due no later than the
\* dequeue lead before its start time (to half a millisecond); the poll that
\* runs then, or any poll within the lookahead horizon of its start time,
\* submits it to the backend; so no record is in the queue once the clock
\* has reached its start time less the lead.
C32_DequeuedInTime ==
  /\ [](\A i \in Insts : \A r \in Range(inst[i].queue) :
          /\ inst[i].pollTimer # Null
          /\ inst[i].pollTimer <= rec[r].time - dequeueTime + pollEpsilon
          /\ clock <= rec[r].time - dequeueTime + pollEpsilon
          /\ ~rec[r].gainNode)
  /\ [][\A i \in Insts :
          PollStep(i) =>
            \A r \in Range(inst[i].queue) :
              /\ rec[r].time - (clock + pollEpsilon) <= bufferSecs =>
                   /\ r \notin Range(inst'[i].queue)
                   /\ rec'[r].gainNode
                   /\ StageOf(r, inst') \in {2, 3}
              /\ r \notin Range(inst'[i].queue) => clock <= rec[r].time
       ]_vars

\* Two records were queued out of order of time; a poll has taken the
\* earlier one and left the later one, before the start time of either.
C32_Witness ==
  /\ last.op = "poll"
  /\ Len(rec) = 2
  /\ rec[2].time < rec[1].time
  /\ inst[1].queue = <<1>>
  /\ 2 \in Range(inst[1].startSet)
  /\ rec[2].gainNode
  /\ clock < rec[2].time

\* C33: whenever no call is in progress, or a handler or callback is
\* running, and the queue, _startSet, _finishSet, _callbackSet or _cleanupSet
\* of an instrument is not empty, a poll timer is armed for that instrument.
C33_NoStall ==
  \A i \in Insts :
    ((Idle \/ Running)
       /\ (InSets(i) # {} \/ inst[i].callbackSet # <<>>
             \/ inst[i].cleanupSet # <<>>))
      => inst[i].pollTimer # Null

\* C34: the noteoff of a record is never delivered before its noteon: a
\* record whose noteoff has been delivered is one whose noteon has been
\* delivered.
C34_OffAfterOn ==
  \A r \in DOMAIN rec : hist.offCnt[r] > 0 => hist.onCnt[r] > 0

\* ---------------------------------------------------- pairs and fairness
\* The poll timer of instrument i fires: _doPoll taken stage by stage, each
\* stage working on the outcome of the one before.
PollStaged(i) ==
  /\ Idle
  /\ inst[i].pollTimer # Null
  /\ clock >= inst[i].pollTimer
  /\ currentStart = Null \/ inst[i].now = Null
  /\ \E interrupted \in BOOLEAN :
     \E w0 \in {[World EXCEPT !.inst[i].pollTimer = Null,
                              !.inst[i].now = Null,
                              !.inst[i].timeouts = @ - 1]} :
     \E w1 \in {pollQueue(w0, i, clock + pollEpsilon)} :
     \E w2 \in {pollCleanup(w1, i, clock + pollEpsilon)} :
     \E w3 \in {pollFinish(w2, i, 1, clock + pollEpsilon)} :
     \E w4 \in {pollCallbacks(w3, i, clock + pollEpsilon)} :
     \E w5 \in {pollStart(w4, i, 1, clock + pollEpsilon)} :
     \E w6 \in {startPollTimer(w5, i, FALSE)} :
     \E w7 \in {IF interrupted THEN silence(w0, i)
                ELSE Push([w6 EXCEPT !.callbacks = <<>>],
                          [Frame("poll", i, SortCallbacks(w6.callbacks), FALSE)
                             EXCEPT !.snap = w6.inst[i].handlers])} :
       Store(w7, "poll", i, 0)

\* One instrument on a page whose timers fire when they are due, polls that
\* may find window.interrupted set, and scripts and one-shot callbacks that
\* request tones of one second or of the longest duration, schedule
\* callbacks and call silence().
NextFair ==
  \/ Construct(1)
  \/ Tone(1, {TicksPerSec} \cup DuoDurations, DuoDelays)
  \/ Schedule(1, DuoDelays)
  \/ Silence(1)
  \/ PollStaged(1)
  \/ ClearCurrentStart
  \/ Elapse
  \/ Deliver
  \/ Return

\* The event loop runs every timer that is due, lets time pass, and every
\* loop that delivers notifications goes on to the next; a handler or
\* callback that runs returns.
Fairness ==
  /\ WF_vars(PollStaged(1))
  /\ WF_vars(ClearCurrentStart)
  /\ WF_vars(Elapse)
  /\ WF_vars(Deliver)
  /\ WF_vars(Return)

SpecFair == InitDuo /\ [][NextFair]_vars /\ Fairness

\* C35: a record gets at most one noteon and at most one noteoff; once no
\* call is in progress a record that has got a noteoff has got a noteon;
\* and a record that has got a noteon gets its noteoff in the end.
C35_Paired ==
  /\ [](\A r \in DOMAIN rec :
          /\ hist.onCnt[r] <= 1
          /\ hist.offCnt[r] <= 1
          /\ (Idle /\ hist.offCnt[r] > 0) => hist.onCnt[r] > 0)
  /\ \A r \in 1..MaxRecs :
       (r \in DOMAIN rec /\ hist.onCnt[r] > 0)
         ~> (r \in DOMAIN rec /\ hist.offCnt[r] > 0)

\* Both records have got their noteon and their noteoff, the second its
\* noteoff from silence().
C35_Witness ==
  /\ Idle
  /\ Len(rec) = 2
  /\ hist.onCnt = <<1, 1>>
  /\ hist.offCnt = <<1, 1>>
  /\ 2 \in hist.flushedRecs
  /\ 1 \notin hist.flushedRecs

\* The one-shot callbacks that the loop at the bottom of the stack of the
\* next state has still to call.
CallsToMake ==
  IF stack' = <<>> THEN {}
  ELSE {stack'[1].todo[k].id :
          k \in {m \in 1..Len(stack'[1].todo) : stack'[1].todo[m].kind = "cb"}}

\* C36: with an audio backend, a callback given to schedule() is called at
\* most once, and not while it is still in _callbackSet; a poll takes from
\* _callbackSet and calls the callbacks whose time is at or before its
\* instant and, unless it is interrupted and calls silence(), leaves the
\* others; silence() takes and calls them all; and a callback that has been
\* scheduled is called in the end.
C36_CalledOnce ==
  /\ [](\A c \in DOMAIN cbs :
          /\ hist.cbCnt[c] <= 1
          /\ c \in Range(inst[cbs[c].inst].callbackSet) => hist.cbCnt[c] = 0)
  /\ [][\A i \in Insts : \A c \in Range(inst[i].callbackSet) :
          /\ PollStep(i) =>
               IF cbs[c].time <= clock + pollEpsilon \/ InterruptedPoll(i)
               THEN c \notin Range(inst'[i].callbackSet) /\ c \in CallsToMake
               ELSE c \in Range(inst'[i].callbackSet) /\ c \notin CallsToMake
          /\ (last'.op = "silence" /\ last'.inst = i /\ ~last'.err) =>
               c \notin Range(inst'[i].callbackSet)
          /\ c \notin Range(inst'[i].callbackSet) =>
               \/ PollStep(i)
               \/ last'.op = "silence" /\ last'.inst = i
       ]_vars
  /\ \A c \in 1..MaxCbs :
       (c \in DOMAIN cbs) ~> (c \in DOMAIN cbs /\ hist.cbCnt[c] = 1)

\* A callback scheduled for a second from now has been called by the poll
\* that ran at that time, and not before.
C36_Witness ==
  /\ last.op = "cb"
  /\ hist.cbCnt = <<1>>
  /\ hist.flushedCbs = {}
  /\ stack # <<>> /\ stack[1].kind = "poll"
  /\ clock > TicksPerSec

\* ------------------------------------------------------ play() and done
\* Instrument.prototype.play(tune, done): the tune is parsed, tone() turns
\* the pitch of each note into its frequency, and done is callback c.
playABCDone(w, i, tokens, c) ==
  LET stems == parseABCFile(<<NoteLine(tokens)>>)[""]
      voiced == [k \in DOMAIN stems |->
                   [stems[k] EXCEPT !.notes =
                      [j \in DOMAIN @ |->
                         [@[j] EXCEPT !.pitch = pitchToFrequency(@)]]]]
  IN play(w, i, voiced, c)

\* Tunes of one or two notes: a note, a long note, two notes in a row, a
\* chord of notes of one length, and chords with a note longer than the
\* other, which is the one that gives the stem its time.
DoneTunes ==
  { <<"C">>, <<"C", "2">>, <<"C", "D">>, <<"C", "2", "D">>,
    <<"[", "C", "D", "]">>, <<"[", "C", "2", "D", "2", "]">>,
    <<"[", "C", "2", "D", "]">>, <<"[", "C", "D", "3", "]">> }

\* A script plays a tune as its first call on an instrument and passes a
\* callback done.
PlayDone(i) ==
  /\ CanSubmit(i)
  /\ rec = <<>>
  /\ cbs = <<>>
  /\ inst[i].now = Null
  /\ \E tune \in DoneTunes :
       Store(playABCDone(AllocCallback(World, i), i, tune, 1), "play", i, tune)

\* One instrument that plays one tune, on a page whose timers fire when
\* they are due and where nothing calls silence().
NextDone ==
  \/ Construct(1)
  \/ PlayDone(1)
  \/ PollUninterrupted(1)
  \/ ClearCurrentStart
  \/ Elapse
  \/ Deliver
  \/ Return

SpecDone == InitDuo /\ [][NextDone]_vars

\* C37: the callback done of play() is called at most once, and when it is
\* called no record of the instrument is still queued, waiting to start or
\* sounding, and every record whose noteon the scheduler has issued has got
\* its noteoff.
C37_DoneAfterNoteoffs ==
  /\ \A c \in DOMAIN cbs : hist.cbCnt[c] <= 1
  /\ last.op = "cb" =>
       /\ InSets(last.inst) = {}
       /\ \A r \in DOMAIN rec : hist.onIss[r] > 0 => hist.offCnt[r] > 0

\* C38: an instrument has at most one timer that has been set and has
\* neither fired nor been cleared, the one that _pollTimer names; and at
\* most one poll of an instrument is in progress.
C38_OneTimer ==
  \A i \in Insts :
    /\ inst[i].timeouts = IF inst[i].pollTimer = Null THEN 0 ELSE 1
    /\ Cardinality({n \in PollFrames : stack[n].inst = i}) <= 1

\* A callback called by a poll has requested a tone: the poll had armed the
\* timer for the end of a sounding record, and now() has replaced it by a
\* timer without delay.
C38_Witness ==
  /\ last.op = "tone"
  /\ stack # <<>> /\ stack[1].kind = "poll"
  /\ Range(inst[1].finishSet) # {0}
  /\ inst[1].pollTimer = clock
  /\ inst[1].timeouts = 1

\* ------------------------------------------------------ the pending queue
\* One instrument whose scripts request tones at any time, at once or
\* beyond the lookahead horizon and in any order of time, and call
\* silence(); timers may fire late and polls may be interrupted.
NextQueue ==
  \/ Construct(1)
  \/ TonePending(1)
  \/ Silence(1)
  \/ Poll(1)
  \/ ClearCurrentStart
  \/ Advance
  \/ Deliver

SpecQueue == InitDuo /\ [][NextQueue]_vars

\* The start times of the records of _queue, in the order of the queue.
QueueTimes(i) == [k \in 1..Len(inst[i].queue) |-> rec[inst[i].queue[k]].time]

\* C39: _minQueueTime is the least start time of the records of _queue,
\* Infinity when there is none; when _unsortedQueue is false the queue is in
\* nondecreasing order of start time; and a poll that is not interrupted
\* takes from the queue exactly the records within the lookahead horizon.
C39_QueueBookkeeping ==
  /\ [](\A i \in Insts : \A ts \in {QueueTimes(i)} :
          /\ inst[i].minQueueTime = SetMin(Range(ts), Infinity)
          /\ ~inst[i].unsortedQueue =>
               \A k \in 1..(Len(ts) - 1) : ts[k] <= ts[k + 1])
  /\ [][\A i \in Insts :
          (PollStep(i) /\ ~InterruptedPoll(i)) =>
            \A r \in Range(inst[i].queue) :
              r \in Range(inst'[i].queue)
                <=> rec[r].time - (clock + pollEpsilon) > bufferSecs]_vars

\* Two records were queued out of order of time, the queue was marked
\* unsorted, and a poll has sorted it and taken the earlier record.
C39_Witness ==
  /\ last.op = "poll"
  /\ Len(rec) = 2
  /\ rec[2].time < rec[1].time
  /\ inst[1].queue = <<1>>
  /\ ~inst[1].unsortedQueue
  /\ inst[1].minQueueTime = rec[1].time
  /\ hist.discarded = {}

\* ------------------------------------------------------ the cached now
\* The time that a now() without a cache would return.
FreshNow == IF currentStart # Null THEN currentStart
            ELSE Max2(minStartTime, clock)

\* C40: when _now is set a poll timer of zero delay is armed, and no script
\* that starts in a later turn of the event loop schedules with a cached
\* _now that differs from the current time.
C40_NowClearedInTime ==
  /\ [](\A i \in Insts :
          inst[i].now # Null =>
            /\ inst[i].pollTimer # Null
            /\ inst[i].pollTimer <= clock)
  /\ [][\A i \in Insts :
          (Idle /\ SchedulingStep(i) /\ inst[i].now # Null) =>
            inst[i].now = FreshNow]_vars

====
